---- MODULE Spec2Model ----
(***************************************************************************)
(* Lumina: the model-driven REST API that the documentation of this        *)
(* repository describes (request pipeline, tenancy, policies, validation,  *)
(* querying, nested operations), and the timed components of its landing  *)
(* page (GeneratorAnimation, CopyButton).                                  *)
(***************************************************************************)
EXTENDS Integers, Sequences, FiniteSets, TLC

VARIABLES
    db,       \* table slug -> set of rows
    nextId,   \* table slug -> next auto-increment id
    audit,    \* the audit_logs table, a sequence of entries
    writes,   \* number of requests that changed the database so far
    req,      \* the request in progress, NoRequest when none is
    resp,     \* the response to it
    stage,    \* the pipeline layer that produced the response
    invitations,  \* the invitations table, a sequence indexed by id
    memberships,  \* the user_roles rows added by accepted invitations
    now,          \* the date, in days
    opIndex,      \* nested batch in progress: the operation the handler works on
    tx,           \* the storage as seen inside its transaction
    opResults,    \* the results of the operations executed so far
    opErrors,     \* the validation errors collected so far
    observed,     \* what a concurrent list request has read last, and whether a
                  \* transaction was open then
    accessed,     \* the tables whose records the request in progress has queried
    mounted,         \* the landing page: GeneratorAnimation is mounted
    visible,         \* at least 30% of its container is in the viewport
    isIntersecting,  \* the entry.isIntersecting last given to the observer callback
    screen,          \* useState<GenScreen>(0)
    optionSelected,  \* useState(false)
    typedName,       \* useState('')
    visibleColumns,  \* useState(0)
    fileProgress,    \* useState(0)
    showDone,        \* useState(false)
    timers,          \* the timeouts of GeneratorAnimation pending in the browser
    timersRef,       \* timersRef.current, the handles given by schedule()
    hasStartedRef,   \* hasStartedRef.current
    copied,          \* CopyButton: useState(false)
    copyTimers,      \* the timeouts of CopyButton pending in the browser
    sinceClick       \* the time since the most recent click, up to CopiedFor

\* the state of a nested batch that is handled step by step
batchVars == <<opIndex, tx, opResults, opErrors, observed>>

\* the state of the API
apiVars == <<db, nextId, audit, writes, req, resp, stage, invitations, memberships, now,
             batchVars, accessed>>

\* the state of the landing page components
animationVars == <<mounted, visible, isIntersecting, screen, optionSelected, typedName,
                   visibleColumns, fileProgress, showDone, timers, timersRef, hasStartedRef>>
copyVars == <<copied, copyTimers, sinceClick>>
pageVars == <<animationVars, copyVars>>

vars == <<apiVars, pageVars>>

\* ------------------------------------------------------------------ bounds

\* requests that change the database in one behaviour
MaxWrites == 2
\* nested batches that commit in one behaviour
MaxBatches == 1
\* invitations sent in one behaviour
MaxInvitations == 1
\* days that pass in one behaviour
MaxDays == 8
\* the highest ?page= and ?per_page= a client sends
MaxPage == 3
MaxPerPage == 3
\* timeouts of CopyButton pending at once
MaxClicks == 3
\* the longest time that passes between two events of CopyButton, in ms
Quantum == 250

\* ------------------------------------------------------- the configuration

NoUser == "guest"
Users == {"alice", "bob", "carol"}
Callers == Users \cup {NoUser}

Orgs == {"acme", "other"}
Ghost == "ghost"
Slugs == Orgs \cup {Ghost}
NoOrg == "-"

Models == {"blogs", "posts", "comments"}
\* the models the CRUD scenarios call
Crud == {"blogs", "posts"}
Public == {"blogs"}

Actions == {"index", "show", "store", "update", "destroy", "trashed", "restore", "forceDelete"}

\* roles.permissions
RolePermissions ==
    [admin  |-> {"*"},
     editor |-> {"posts.index", "posts.show", "posts.store", "posts.update", "comments.*"},
     viewer |-> {"posts.index", "posts.show"},
     writer |-> {"posts.store", "posts.update"}]

RoleSlugs == DOMAIN RolePermissions
NoRole == "null"

\* user_roles: (user_id, organization_id, role)
UserRoles ==
    { <<"alice", "acme", "admin">>,  <<"alice", "other", "viewer">>,
      <<"bob",   "acme", "editor">>,
      <<"carol", "acme", "writer">> }

\* $owner: the relation path from a model to the model holding organization_id
Owner == [blogs |-> <<>>, posts |-> <<"blog">>, comments |-> <<"post", "blog">>]
\* belongsTo relations: relation name -> table
RelationTable == [blog |-> "blogs", post |-> "posts"]
\* the payload field holding the foreign key of a model's parent
ParentField == [blogs |-> "-", posts |-> "blog_id", comments |-> "post_id"]
\* the models that use HasAuditTrail, and their $auditExclude
Audited == {"blogs", "posts"}
AuditExclude == [blogs |-> {}, posts |-> {"api_token"}, comments |-> {}]
\* the attributes a request can fill, and the keys of the meta column that hold objects
Fillable == {"title", "status", "password", "api_token", "meta"}
JsonObjects == {"profile"}

\* ------------------------------------------------------ authorization layer

\* the role a user holds in an organization ($user->userRoles()->where(...)->first())
RoleOf(user, org) ==
    LET rs == {t[3] : t \in {u \in UserRoles \cup memberships : u[1] = user /\ u[2] = org}}
    IN  IF rs = {} THEN NoRole ELSE CHOOSE r \in rs : TRUE

\* a faulty variant: the role is looked up in any organization of the user
RoleOfAnyOrg(user, org) ==
    LET rs == {t[3] : t \in {u \in UserRoles : u[1] = user}}
    IN  IF rs = {} THEN NoRole
        ELSE IF "admin" \in rs THEN "admin" ELSE CHOOSE r \in rs : TRUE

\* the role used by permission checks in the organization of the request
RoleInOrganization(user, org) == RoleOf(user, org)

\* $user->hasPermission("{slug}.{action}", $organization)
HasPermission(user, slug, action, org) ==
    LET role == RoleInOrganization(user, org)
    IN  IF user = NoUser \/ role = NoRole
        THEN FALSE
        ELSE LET perms == RolePermissions[role]
             IN  \/ (slug \o "." \o action) \in perms
                 \/ (slug \o ".*") \in perms
                 \/ "*" \in perms

\* ResourcePolicy: every policy method checks "{slug}.{action}"
Authorize(user, action, slug, org) == HasPermission(user, slug, action, org)

\* ------------------------------------------------------ tenant scope layer

Member(user, org) == RoleOf(user, org) # NoRole

\* the organization a row belongs to: organization_id, or the $owner path walked
RECURSIVE OwnerOrg(_, _, _)
OwnerOrg(d, row, path) ==
    IF path = <<>>
    THEN row.organization_id
    ELSE LET parents == {p \in d[RelationTable[Head(path)]] : p.id = row.parent_id}
         IN  IF parents = {}
             THEN NoOrg
             ELSE OwnerOrg(d, CHOOSE p \in parents : TRUE, Tail(path))

RowOrg(d, m, row) == OwnerOrg(d, row, Owner[m])

\* the global scope of BelongsToOrganization
InScope(d, m, org) == {row \in d[m] : RowOrg(d, m, row) = org}

\* ------------------------------------------------------- validation engine

\* a payload without fields
EmptyData == [f \in {} |-> ""]

PresenceModifiers == {"required", "nullable", "sometimes"}

\* $validationRules, a rule string split at "|"
BaseRules ==
    [blogs |-> [title   |-> <<"string", "max:255">>],
     posts |-> [title     |-> <<"string", "max:255">>,
                status    |-> <<"string", "in:draft,published">>,
                blog_id   |-> <<"integer", "exists:blogs,id">>,
                password  |-> <<"string">>,
                api_token |-> <<"string">>,
                meta      |-> <<"array">>]]

Simple(fields) == [kind |-> "simple", fields |-> fields, roles |-> <<>>]
RoleKeyed(roles) == [kind |-> "roles", fields |-> {}, roles |-> roles]

\* $validationRulesStore
StoreRules ==
    [blogs |-> Simple({"title"}),
     posts |-> RoleKeyed(
        [admin  |-> [title |-> <<"required">>, status |-> <<"nullable">>,
                     blog_id |-> <<"required">>, password |-> <<"nullable">>,
                     api_token |-> <<"nullable">>, meta |-> <<"nullable">>],
         editor |-> [title |-> <<"required">>, blog_id |-> <<"required">>]]
        @@ ("*" :> [title |-> <<"required">>, blog_id |-> <<"required">>]))]

\* $validationRulesUpdate
UpdateRules ==
    [blogs |-> Simple({"title"}),
     posts |-> RoleKeyed(
        [admin  |-> [title |-> <<"sometimes">>,
                     status |-> <<"sometimes", "string", "in:draft,published">>,
                     password |-> <<"sometimes">>, meta |-> <<"sometimes">>],
         editor |-> [title |-> <<"sometimes">>]])]

ActionRules(m, action) == IF action = "store" THEN StoreRules[m] ELSE UpdateRules[m]

NoLayer == [none |-> <<>>]

\* a faulty variant: a listed field is optional on creation too
OptionalField(action) == <<"sometimes">>

\* the simple format: a listed field is required on creation, accepted on update
ListedField(action) == IF action = "store" THEN <<"required">> ELSE <<"sometimes">>

\* a faulty variant: a role without entry and without "*" gets every base field
PassThroughLayer(m, action, roleSlug) ==
    LET set == ActionRules(m, action)
    IN  IF set.kind = "simple"
        THEN [f \in set.fields |-> ListedField(action)]
        ELSE IF roleSlug \in DOMAIN set.roles THEN set.roles[roleSlug]
        ELSE IF "*" \in DOMAIN set.roles THEN set.roles["*"]
        ELSE [f \in DOMAIN BaseRules[m] |-> <<"sometimes">>]

\* the rule layer of the caller: the entry of the role slug, else "*", else none
ResolveLayer(m, action, roleSlug) ==
    LET set == ActionRules(m, action)
    IN  IF set.kind = "simple"
        THEN [f \in set.fields |-> ListedField(action)]
        ELSE IF roleSlug \in DOMAIN set.roles THEN set.roles[roleSlug]
        ELSE IF "*" \in DOMAIN set.roles THEN set.roles["*"]
        ELSE NoLayer

\* a faulty variant: the base rule is appended to a full override too
AlwaysPrepended(m, layer, f) == layer[f] \o BaseRules[m][f]

\* a bare presence modifier is prepended to the base rule; anything else overrides it
EffectiveRule(m, layer, f) ==
    IF Len(layer[f]) = 1 /\ layer[f][1] \in PresenceModifiers
    THEN layer[f] \o BaseRules[m][f]
    ELSE layer[f]

\* one rule of a rule string, on a value that is present and not empty
RuleHolds(d, rule, v) ==
    CASE rule = "in:draft,published" -> v \in {"draft", "published"}
      [] rule = "exists:blogs,id"    -> \E b \in d["blogs"] : b.id = v
      [] OTHER                       -> TRUE

Empty(f, v) ==
    CASE f = "blog_id" -> v = 0
      [] f = "meta"    -> v = EmptyData
      [] OTHER         -> v = ""

FieldFails(d, m, layer, data, f) ==
    LET rule == EffectiveRule(m, layer, f)
        has(x) == \E i \in 1..Len(rule) : rule[i] = x
    IN  IF f \notin DOMAIN data \/ Empty(f, data[f])
        THEN has("required")
        ELSE \E i \in 1..Len(rule) : ~RuleHolds(d, rule[i], data[f])

\* the payload restricted to the fields of the rule layer
OnlyListed(layer, data) == [f \in (DOMAIN data) \cap (DOMAIN layer) |-> data[f]]

\* a faulty variant: the whole payload goes on to the model
WholePayload(layer, data) == data

Validated(layer, data) == OnlyListed(layer, data)

\* validateStore / validateUpdate: [status, errors, data]
Validate(d, m, action, user, org, data) ==
    LET layer == ResolveLayer(m, action, RoleOf(user, org))
        bad == {f \in DOMAIN layer : FieldFails(d, m, layer, data, f)}
    IN  IF layer = NoLayer
        THEN [status |-> 403, errors |-> {}, data |-> EmptyData]
        ELSE IF bad # {}
        THEN [status |-> 422, errors |-> bad, data |-> EmptyData]
        ELSE [status |-> 200, errors |-> {}, data |-> Validated(layer, data)]

\* ------------------------------------------------------------ persistence

\* the storage state a request works on
Storage(d, n, a) == [db |-> d, nextId |-> n, audit |-> a]

Get(data, f, default) == IF f \in DOMAIN data THEN data[f] ELSE default

\* the attributes an audit entry records
Attributes(row) == [f \in Fillable \cup {"parent_id", "remember_token"} |-> row[f]]
NullValues == [null |-> TRUE, values |-> EmptyData]
Values(v) == [null |-> FALSE, values |-> v]

\* a faulty variant: the list of the model replaces the default exclusions
DeclaredOnly(m) == AuditExclude[m]

\* password and remember_token, and what $auditExclude adds
Excluded(m) == {"password", "remember_token"} \cup AuditExclude[m]

\* a JSON value without the excluded keys, at every depth
RECURSIVE Scrub(_, _)
Scrub(json, excluded) ==
    [k \in (DOMAIN json) \ excluded |->
        IF k \in JsonObjects THEN Scrub(json[k], excluded) ELSE json[k]]

\* the values of an audit entry: the attributes without the excluded fields
Logged(m, attributes) ==
    Values([f \in (DOMAIN attributes) \ Excluded(m) |->
              IF f = "meta" THEN Scrub(attributes[f], Excluded(m)) ELSE attributes[f]])

AuditEntry(action, m, id, old, new, user, org) ==
    [action |-> action, model |-> m, id |-> id, old_values |-> old,
     new_values |-> new, user |-> user, organization_id |-> org]

\* HasAuditTrail: the entry is appended for models that use the trait
Log(st, m, entry) ==
    IF m \in Audited THEN [st EXCEPT !.audit = Append(@, entry)] ELSE st

\* Model::create: organization_id is filled from the request context
Create(st, m, user, org, data) ==
    LET row == [id              |-> st.nextId[m],
                organization_id |-> IF Owner[m] = <<>> THEN org ELSE NoOrg,
                parent_id       |-> Get(data, ParentField[m], 0),
                title           |-> Get(data, "title", ""),
                status          |-> Get(data, "status", ""),
                password        |-> Get(data, "password", ""),
                remember_token  |-> "",
                api_token       |-> Get(data, "api_token", ""),
                meta            |-> Get(data, "meta", EmptyData),
                deleted_at      |-> FALSE]
        st1 == [st EXCEPT !.db[m] = @ \cup {row}, !.nextId[m] = @ + 1]
    IN  [st  |-> Log(st1, m, AuditEntry("created", m, row.id, NullValues,
                                       Logged(m, Attributes(row)), user, org)),
         row |-> row]

Replace(st, m, old, new) == [st EXCEPT !.db[m] = (@ \ {old}) \cup {new}]

\* $model->update: only the changed attributes are logged
Update(st, m, user, org, row, data) ==
    LET new == [f \in DOMAIN row |->
                  IF f \in Fillable \cap DOMAIN data THEN data[f] ELSE row[f]]
        changed == {f \in Fillable : new[f] # row[f]}
        st1 == Replace(st, m, row, new)
    IN  [st  |-> IF changed = {} THEN st1
                 ELSE Log(st1, m, AuditEntry("updated", m, row.id,
                                Logged(m, [f \in changed |-> row[f]]),
                                Logged(m, [f \in changed |-> new[f]]), user, org)),
         row |-> new]

\* a faulty variant: the change of deleted_at is logged as an update as well
DestroyAsUpdate(st, m, user, org, row) ==
    LET new == [row EXCEPT !.deleted_at = TRUE]
        st1 == Log(Replace(st, m, row, new), m, AuditEntry("updated", m, row.id,
                        Values(EmptyData), Values(EmptyData), user, org))
    IN  [st  |-> Log(st1, m, AuditEntry("deleted", m, row.id,
                        Logged(m, Attributes(row)), NullValues, user, org)),
         row |-> new]

\* $model->delete with SoftDeletes: deleted_at is set
Destroy(st, m, user, org, row) ==
    LET new == [row EXCEPT !.deleted_at = TRUE]
    IN  [st  |-> Log(Replace(st, m, row, new), m, AuditEntry("deleted", m, row.id,
                        Logged(m, Attributes(row)), NullValues, user, org)),
         row |-> new]

\* a faulty variant: the restored entry records the attributes as old values too
RestoreWithOld(st, m, user, org, row) ==
    LET new == [row EXCEPT !.deleted_at = FALSE]
    IN  [st  |-> Log(Replace(st, m, row, new), m, AuditEntry("restored", m, row.id,
                        Logged(m, Attributes(row)), Logged(m, Attributes(row)), user, org)),
         row |-> new]

\* restore(): deleted_at is cleared
Restore(st, m, user, org, row) ==
    LET new == [row EXCEPT !.deleted_at = FALSE]
    IN  [st  |-> Log(Replace(st, m, row, new), m, AuditEntry("restored", m, row.id,
                        NullValues, Logged(m, Attributes(row)), user, org)),
         row |-> new]

\* a faulty variant: the audit entries of the record are removed with it
ForceDeletePurging(st, m, user, org, row) ==
    LET other(e) == ~(e.model = m /\ e.id = row.id)
        st1 == [st EXCEPT !.db[m] = @ \ {row}, !.audit = SelectSeq(@, other)]
    IN  [st  |-> Log(st1, m, AuditEntry("force_deleted", m, row.id,
                        Logged(m, Attributes(row)), NullValues, user, org)),
         row |-> row]

\* forceDelete(): the row is removed from the table
ForceDelete(st, m, user, org, row) ==
    [st  |-> Log([st EXCEPT !.db[m] = @ \ {row}], m, AuditEntry("force_deleted", m,
                    row.id, Logged(m, Attributes(row)), NullValues, user, org)),
     row |-> row]

\* foreignId(...)->constrained(): a parent with children cannot be removed
HasChildren(d, m, row) ==
    \E c \in Models : /\ Owner[c] # <<>>
                      /\ RelationTable[Head(Owner[c])] = m
                      /\ \E x \in d[c] : x.parent_id = row.id

\* ------------------------------------------------------------ query builder

\* $allowedFilters, $allowedSorts, $defaultSort, $allowedFields, $allowedSearch
AllowedFilters == [blogs |-> {}, posts |-> {"status"}, comments |-> {}]
AllowedSorts == [blogs |-> {"id"}, posts |-> {"id", "title"}, comments |-> {"id"}]
SortBy(field, desc) == [field |-> field, desc |-> desc]
DefaultSort == [m \in Models |-> <<SortBy("id", TRUE)>>]
AllowedFields ==
    [blogs |-> {"id", "title"}, posts |-> {"id", "title", "status"},
     comments |-> {"id", "title"}]
AllowedSearch == [m \in Models |-> {"title"}]

\* $allowedIncludes: relation paths, "post.blog" is <<"post", "blog">>
AllowedIncludes ==
    [blogs    |-> {<<"posts">>},
     posts    |-> {<<"blog">>, <<"comments">>},
     comments |-> {<<"post">>, <<"post", "blog">>}]

\* the Eloquent relations of each model
BelongsTo(table) == [kind |-> "belongsTo", table |-> table]
HasMany(table) == [kind |-> "hasMany", table |-> table]
Relations ==
    [blogs    |-> [posts |-> HasMany("posts")],
     posts    |-> [blog |-> BelongsTo("blogs"), comments |-> HasMany("comments")],
     comments |-> [post |-> BelongsTo("posts")]]

\* a faulty variant: every column can be filtered
AnyFilter(m, attribute) == TRUE

AllowedFilter(m, attribute) == attribute \in AllowedFilters[m]

\* the query parameters that name allow-listed attributes; the rest is ignored
Accepted(m, q) ==
    LET sortable(x) == x.field \in AllowedSorts[m]
        loadable(path) == path \in AllowedIncludes[m]
    IN  [filter  |-> [a \in {x \in DOMAIN q.filter : AllowedFilter(m, x)} |-> q.filter[a]],
         sort    |-> SelectSeq(q.sort, sortable),
         search  |-> q.search,
         include |-> SelectSeq(q.include, loadable),
         fields  |-> q.fields \cap AllowedFields[m]]

\* the rows a relation leads to from a set of rows
Related(d, m, rows, relation) ==
    LET rel == Relations[m][relation]
    IN  IF rel.kind = "belongsTo"
        THEN {p \in d[rel.table] : ~p.deleted_at /\ \E x \in rows : x.parent_id = p.id}
        ELSE {c \in d[rel.table] : ~c.deleted_at /\ \E x \in rows : c.parent_id = x.id}

RECURSIVE Follow(_, _, _, _)
Follow(d, m, rows, path) ==
    IF path = <<>> THEN rows
    ELSE Follow(d, Relations[m][Head(path)].table,
                Related(d, m, rows, Head(path)), Tail(path))

\* the resource slug behind every segment of an include path
RECURSIVE Resources(_, _)
Resources(m, path) ==
    IF path = <<>> THEN <<>>
    ELSE <<Relations[m][Head(path)].table>>
            \o Resources(Relations[m][Head(path)].table, Tail(path))

\* a faulty variant: only the first relation of a nested include is authorized
FirstResource(m, path) == <<Relations[m][Head(path)].table>>

IncludedResources(m, path) == Resources(m, path)

\* the first relation of an include path the caller may not list, "" when none
DeniedIn(user, org, m, path) ==
    LET slugs == IncludedResources(m, path)
        bad == {i \in 1..Len(slugs) : ~HasPermission(user, slugs[i], "index", org)}
    IN  IF bad = {} THEN ""
        ELSE path[CHOOSE i \in bad : \A j \in bad : i <= j]

RECURSIVE DeniedInclude(_, _, _, _)
DeniedInclude(user, org, m, paths) ==
    IF paths = <<>> THEN ""
    ELSE IF DeniedIn(user, org, m, Head(paths)) # ""
    THEN DeniedIn(user, org, m, Head(paths))
    ELSE DeniedInclude(user, org, m, Tail(paths))

\* the collation of the text columns
Collation == <<"", "A", "B", "T", "draft", "published">>
Rank(v) == CHOOSE i \in 1..Len(Collation) : Collation[i] = v
SortKey(row, field) == IF field = "id" THEN row.id ELSE Rank(row[field])

\* a faulty variant: the "-" prefix is ignored
Ascending(x, y, sorts) ==
    LET differ == {i \in 1..Len(sorts) :
                      SortKey(x, sorts[i].field) # SortKey(y, sorts[i].field)}
        k == CHOOSE i \in differ : \A j \in differ : i <= j
    IN  IF differ = {} THEN x.id < y.id
        ELSE SortKey(x, sorts[k].field) < SortKey(y, sorts[k].field)

RECURSIVE Before(_, _, _)
Before(x, y, sorts) ==
    IF sorts = <<>> THEN x.id < y.id
    ELSE LET kx == SortKey(x, Head(sorts).field)
             ky == SortKey(y, Head(sorts).field)
         IN  IF kx = ky THEN Before(x, y, Tail(sorts))
             ELSE IF Head(sorts).desc THEN kx > ky ELSE kx < ky

RECURSIVE Sorted(_, _)
Sorted(rows, sorts) ==
    IF rows = {} THEN <<>>
    ELSE LET first == CHOOSE x \in rows : \A y \in rows \ {x} : Before(x, y, sorts)
         IN  <<first>> \o Sorted(rows \ {first}, sorts)

\* ?filter[a]=v1,v2: any of the values; several filters: all of them
Filtered(rows, filter) ==
    {x \in rows : \A a \in DOMAIN filter : x[a] \in filter[a]}

\* ?search=term over the $allowedSearch columns (the data holds one-word texts)
Searched(m, rows, term) ==
    IF term = "" THEN rows
    ELSE {x \in rows : \E f \in AllowedSearch[m] : x[f] = term}

\* HidableColumns, layer 1: the base hidden columns (always hidden)
BaseHidden ==
    {"password", "remember_token", "created_at", "updated_at", "deleted_at",
     "email_verified_at"}

\* layer 2: $additionalHiddenColumns of the model
AdditionalHiddenColumns == [blogs |-> {}, posts |-> {"api_token"}, comments |-> {}]

\* layer 3: hiddenColumns(?Authenticatable $user) of the policy; $user is null
\* on a public endpoint
PolicyHidden(m, user, org) ==
    LET role == RoleInOrganization(user, org)
    IN  IF m = "posts" /\ (user = NoUser \/ role = NoRole \/ "*" \notin RolePermissions[role])
        THEN {"meta"}
        ELSE {}

\* the three layers merged
HiddenColumns(m, user, org) ==
    BaseHidden \cup AdditionalHiddenColumns[m] \cup PolicyHidden(m, user, org)

\* the record without the columns hidden from the caller
Visible(m, row, user, org) ==
    [f \in (DOMAIN row) \ HiddenColumns(m, user, org) |-> row[f]]

\* the record of a soft-delete response: its examples carry deleted_at
SoftDeleted(m, row, user, org) ==
    Visible(m, row, user, org) @@ [deleted_at |-> row.deleted_at]

\* a record as serialized: the selected fields and the loaded relations
Serialized(d, m, row, q, user, org) ==
    LET seen  == Visible(m, row, user, org)
        shown == IF q.fields = {} THEN seen
                 ELSE [f \in q.fields \cap DOMAIN seen |-> seen[f]]
        paths == {q.include[i] : i \in 1..Len(q.include)}
    IN  IF paths = {} THEN shown
        ELSE shown @@ [included |->
                [p \in paths |-> {x.id : x \in Follow(d, m, {row}, p)}]]

\* the trashed records in the default order, each with its deleted_at
TrashedCollection(m, rows, user, org) ==
    LET order == Sorted(rows, DefaultSort[m])
    IN  [i \in 1..Len(order) |-> SoftDeleted(m, order[i], user, org)]

\* the records of a collection in the order of the response
Collection(d, m, rows, q, user, org) ==
    LET matching == Searched(m, Filtered(rows, q.filter), q.search)
        order == Sorted(matching, IF q.sort = <<>> THEN DefaultSort[m] ELSE q.sort)
    IN  [i \in 1..Len(order) |-> Serialized(d, m, order[i], q, user, org)]

\* -------------------------------------------------------- request pipeline

\* a response without pagination headers
NoHeaders == [h \in {} |-> 0]

\* data holds the records of the response, body the data array of a collection
Response(status, message, errors, data) ==
    [status |-> status, message |-> message, errors |-> errors, data |-> data,
     body |-> <<>>, headers |-> NoHeaders]

Done(st, response) == [st |-> st, resp |-> response, stage |-> "action"]
Fail(st, status, message) == Done(st, Response(status, message, {}, {}))
\* a rejection by an earlier layer of the pipeline
Reject(st, layer, status, message) == [Fail(st, status, message) EXCEPT !.stage = layer]

\* a faulty variant: the default query does not leave out the trashed records
WithTrashed(rows) == rows

\* the SoftDeletes scope of a query, and onlyTrashed()
Live(rows) == {x \in rows : ~x.deleted_at}
Trash(rows) == {x \in rows : x.deleted_at}

\* the row a route binds {id} to, inside the organization scope
Find(d, m, org, id, trashed) ==
    {row \in InScope(d, m, org) : row.id = id /\ row.deleted_at \in trashed}

\* store and update: validate, then persist the validated fields only
Write(st, r, rows) ==
    LET v == Validate(st.db, r.model, r.action, r.user, r.org, r.data)
    IN  IF v.status = 403
        THEN Reject(st, "validation", 403, "This action is unauthorized.")
        ELSE IF v.status = 422
        THEN [Done(st, Response(422, "Validation failed.", v.errors, {}))
                EXCEPT !.stage = "validation"]
        ELSE IF r.action = "store"
        THEN LET out == Create(st, r.model, r.user, r.org, v.data)
             IN  Done(out.st, Response(201, "", {},
                      {Visible(r.model, out.row, r.user, r.org)}))
        ELSE LET out == Update(st, r.model, r.user, r.org, CHOOSE x \in rows : TRUE, v.data)
             IN  Done(out.st, Response(200, "", {},
                      {Visible(r.model, out.row, r.user, r.org)}))

\* $paginationEnabled
PaginationEnabled == [blogs |-> TRUE, posts |-> TRUE, comments |-> FALSE]

\* $perPage, the default page size
PerPage == [blogs |-> 25, posts |-> 25, comments |-> 25]

\* ?page=N&per_page=N; 0 stands for a parameter that is not sent
CurrentPage(r) == IF r.page = 0 THEN 1 ELSE r.page
PageSize(r) == IF r.per_page = 0 THEN PerPage[r.model] ELSE r.per_page

\* a faulty variant: the last page is the number of full pages
FullPages(total, size) == IF total < size THEN 1 ELSE total \div size

\* the number of the last page; a result without records has one page
LastPage(total, size) == IF total = 0 THEN 1 ELSE (total + size - 1) \div size

\* the records of the requested page
Page(rows, page, size) ==
    LET first == (page - 1) * size + 1
        last  == IF page * size < Len(rows) THEN page * size ELSE Len(rows)
    IN  SubSeq(rows, first, last)

\* X-Current-Page, X-Last-Page, X-Per-Page, X-Total
Headers(total, page, size) ==
    ("X-Current-Page" :> page) @@ ("X-Last-Page" :> LastPage(total, size))
        @@ ("X-Per-Page" :> size) @@ ("X-Total" :> total)

\* the response to a collection request: one page and the pagination headers,
\* or every record when the model switches pagination off
Listing(r, rows) ==
    LET shown == IF PaginationEnabled[r.model]
                 THEN Page(rows, CurrentPage(r), PageSize(r))
                 ELSE rows
    IN  [Response(200, "", {}, {shown[i] : i \in 1..Len(shown)})
            EXCEPT !.body = shown,
                   !.headers = IF PaginationEnabled[r.model]
                               THEN Headers(Len(rows), CurrentPage(r), PageSize(r))
                               ELSE NoHeaders]

\* the controller action, after middleware and policy
Dispatch(st, r) ==
    LET live == Find(st.db, r.model, r.org, r.id, {FALSE})
        gone == Find(st.db, r.model, r.org, r.id, {TRUE})
        row(rows) == CHOOSE x \in rows : TRUE
        q    == Accepted(r.model, r.query)
        denied == DeniedInclude(r.user, r.org, r.model, q.include)
    IN  CASE r.action \in {"index", "show"} /\ denied # "" ->
               Reject(st, "include", 403,
                      "You do not have permission to include " \o denied \o ".")
          [] r.action = "index" ->
               Done(st, Listing(r, Collection(st.db, r.model,
                    Live(InScope(st.db, r.model, r.org)), q, r.user, r.org)))
          [] r.action = "trashed" ->
               Done(st, Listing(r, TrashedCollection(r.model,
                    Trash(InScope(st.db, r.model, r.org)), r.user, r.org)))
          [] r.action = "store" -> Write(st, r, {})
          [] r.action = "show" ->
               IF live = {} THEN Fail(st, 404, "Not found.")
               ELSE Done(st, Response(200, "", {},
                         {Serialized(st.db, r.model, row(live), q, r.user, r.org)}))
          [] r.action = "update" ->
               IF live = {} THEN Fail(st, 404, "Not found.") ELSE Write(st, r, live)
          [] r.action = "destroy" ->
               IF live = {} THEN Fail(st, 404, "Not found.")
               ELSE LET out == Destroy(st, r.model, r.user, r.org, row(live))
                    IN  Done(out.st, Response(200, "", {},
                             {SoftDeleted(r.model, out.row, r.user, r.org)}))
          [] r.action = "restore" ->
               IF gone = {} THEN Fail(st, 404, "Not found.")
               ELSE LET out == Restore(st, r.model, r.user, r.org, row(gone))
                    IN  Done(out.st, Response(200, "", {},
                             {SoftDeleted(r.model, out.row, r.user, r.org)}))
          [] r.action = "forceDelete" ->
               IF live \cup gone = {} THEN Fail(st, 404, "Not found.")
               ELSE IF HasChildren(st.db, r.model, row(live \cup gone))
               THEN Fail(st, 500, "Server Error")
               ELSE LET out == ForceDelete(st, r.model, r.user, r.org, row(live \cup gone))
                    IN  Done(out.st, Response(200, "Resource permanently deleted.", {}, {}))

\* a faulty variant: every model is treated as public
NeverRequired(r) == FALSE

\* the auth middleware stops a request without credentials, except on public models
Unauthenticated(r) == r.user = NoUser /\ r.model \notin Public

\* auth middleware, organization middleware, policy, then the action
Handle(st, r) ==
    IF Unauthenticated(r)
    THEN Reject(st, "auth", 401, "Unauthenticated.")
    ELSE IF r.org \notin Orgs
    THEN Reject(st, "organization", 404, "Organization not found")
    ELSE IF r.user # NoUser /\ ~Member(r.user, r.org)
    THEN Reject(st, "organization", 404, "Organization not found")
    ELSE IF ~Authorize(r.user, r.action, r.model, r.org)
    THEN Reject(st, "policy", 403, "This action is unauthorized.")
    ELSE Dispatch(st, r)

\* ---------------------------------------------------------- nested operations

\* "$N.field" as a payload value
Ref(n, f) == [n |-> n, f |-> f]
NoRefs == [f \in {} |-> Ref(0, "")]

\* one entry of "operations"; refs holds the fields (or "id") given as "$N.field"
Operation(action, model, id, data, refs) ==
    [action |-> action, model |-> model, id |-> id, data |-> data, refs |-> refs]

\* create checks {slug}.store, update {slug}.update, delete {slug}.destroy
PolicyAction == [create |-> "store", update |-> "update", delete |-> "destroy"]

\* the column behind a field of a serialized record
Column(m, f) == IF f = ParentField[m] THEN "parent_id" ELSE f

\* one entry of "results"
Result(op, row) == [model |-> op.model, action |-> op.action, id |-> row.id, data |-> row]

\* a faulty variant: a reference reads the result of the operation just before
LastResult(results, n) == results[Len(results)]

\* $0 is the result of the first operation
ResultAt(results, n) == results[n + 1]

\* the value of "$N.field"
Resolve(results, ref) ==
    LET result == ResultAt(results, ref.n)
    IN  result.data[Column(result.model, ref.f)]

\* a reference to this or a later operation, or to a field the result lacks
Unresolvable(results, ref) ==
    \/ ref.n + 1 > Len(results)
    \/ Column(results[ref.n + 1].model, ref.f) \notin DOMAIN results[ref.n + 1].data

\* the operation with its references replaced by their values
Resolved(results, op) ==
    [op EXCEPT !.id = IF "id" \in DOMAIN op.refs THEN Resolve(results, op.refs["id"]) ELSE @,
               !.data = [f \in (DOMAIN op.refs) \ {"id"} |-> Resolve(results, op.refs[f])]
                            @@ @]

\* the operations the caller is not permitted to run
Unauthorized(r) ==
    {i \in DOMAIN r.operations :
        ~Authorize(r.user, PolicyAction[r.operations[i].action],
                   r.operations[i].model, r.org)}

\* a faulty variant: the data of an operation is not validated before the batch runs
Unchecked(d, op, user, org) == [status |-> 200, errors |-> {}]

\* validation of one operation before anything runs; a referenced field is present
ValidateOperation(d, op, user, org) ==
    LET layer == ResolveLayer(op.model, PolicyAction[op.action], RoleOf(user, org))
    IN  IF op.action = "delete" THEN [status |-> 200, errors |-> {}]
        ELSE IF layer = NoLayer THEN [status |-> 403, errors |-> {}]
        ELSE [status |-> 200,
              errors |-> {f \in (DOMAIN layer) \ DOMAIN op.refs :
                            FieldFails(d, op.model, layer, op.data, f)}]

\* "operations.{i}.data.{field}" of every failing field, i counted from 0
BatchErrors(d, r) ==
    UNION { {<<i - 1, f>> : f \in ValidateOperation(d, r.operations[i], r.user, r.org).errors} :
            i \in DOMAIN r.operations }

\* the foreign key of a new row points to no row
ForeignKeyFails(d, m, data) ==
    /\ Owner[m] # <<>>
    /\ ParentField[m] \in DOMAIN data
    /\ ~\E p \in d[RelationTable[Head(Owner[m])]] : p.id = data[ParentField[m]]

Failed(status, message) == [ok |-> FALSE, status |-> status, message |-> message]

\* one operation inside the transaction
Run(st, r, op) ==
    LET layer == ResolveLayer(op.model, PolicyAction[op.action], RoleOf(r.user, r.org))
        rows == Find(st.db, op.model, r.org, op.id, {FALSE})
        done(out) == [ok |-> TRUE, st |-> out.st,
                      result |-> Result(op, Visible(op.model, out.row, r.user, r.org))]
    IN  CASE op.action = "create" ->
               IF ForeignKeyFails(st.db, op.model, Validated(layer, op.data))
               THEN Failed(500, "Server Error")
               ELSE done(Create(st, op.model, r.user, r.org, Validated(layer, op.data)))
          [] op.action = "update" ->
               IF rows = {} THEN Failed(404, "Not found.")
               ELSE done(Update(st, op.model, r.user, r.org, CHOOSE x \in rows : TRUE,
                                Validated(layer, op.data)))
          [] op.action = "delete" ->
               IF rows = {} THEN Failed(404, "Not found.")
               ELSE done(Destroy(st, op.model, r.user, r.org, CHOOSE x \in rows : TRUE))

\* the operations in order, from operation i on
RECURSIVE Execute(_, _, _, _)
Execute(st, r, i, results) ==
    IF i > Len(r.operations)
    THEN [ok |-> TRUE, st |-> st, results |-> results]
    ELSE LET op == r.operations[i]
         IN  IF \E f \in DOMAIN op.refs : Unresolvable(results, op.refs[f])
             THEN Failed(422, "Validation failed.") @@ [st |-> st, stage |-> "reference"]
             ELSE LET out == Run(st, r, Resolved(results, op))
                  IN  IF out.ok
                      THEN Execute(out.st, r, i + 1, Append(results, out.result))
                      ELSE out @@ [st |-> st, stage |-> "action"]

\* a faulty variant: the writes of the operations before the failing one stay
KeepPartial(before, after) == after

\* DB::transaction: a failed batch leaves the storage as it was
Rollback(before, after) == before

\* config('lumina.nested'), with the limits set low enough to be met
NestedConfig == [max_operations |-> 3, allowed_models |-> {"blogs", "posts"}]

\* a faulty variant: a batch of exactly max_operations operations is refused too
BelowLimit(operations) == Len(operations) >= NestedConfig.max_operations

\* more operations than max_operations
OverLimit(operations) == Len(operations) > NestedConfig.max_operations

\* an operation on a model outside allowed_models
Disallowed(operations) ==
    {i \in DOMAIN operations : operations[i].model \notin NestedConfig.allowed_models}

\* the batch is refused as a whole before anything else is looked at
Limited(r) == OverLimit(r.operations) \/ Disallowed(r.operations) # {}

\* POST /api/{organization}/nested
Nested(st, r) ==
    LET checks == [i \in DOMAIN r.operations |->
                      ValidateOperation(st.db, r.operations[i], r.user, r.org)]
        out == Execute(st, r, 1, <<>>)
    IN  IF Unauthenticated(r)
        THEN Reject(st, "auth", 401, "Unauthenticated.")
        ELSE IF r.org \notin Orgs \/ ~Member(r.user, r.org)
        THEN Reject(st, "organization", 404, "Organization not found")
        ELSE IF Limited(r)
        THEN Reject(st, "limits", 422, "Validation failed.")
        ELSE IF Unauthorized(r) # {}
        THEN Reject(st, "policy", 403, "This action is unauthorized.")
        ELSE IF \E i \in DOMAIN checks : checks[i].status = 403
        THEN Reject(st, "validation", 403, "This action is unauthorized.")
        ELSE IF BatchErrors(st.db, r) # {}
        THEN [Done(st, Response(422, "Validation failed.", BatchErrors(st.db, r), {}))
                EXCEPT !.stage = "validation"]
        ELSE IF ~out.ok
        THEN Reject(Rollback(st, out.st), out.stage, out.status, out.message)
        ELSE Done(out.st, [Response(200, "", {}, {}) EXCEPT !.body = out.results])

\* the API call behind useOrganizationExists(slug)
OrganizationExists(st, r) ==
    Done(st, Response(200, IF r.org \in Orgs THEN "exists" ELSE "available", {}, {}))

\* ------------------------------------------------------------- the requests

WithId == {"show", "update", "destroy", "restore", "forceDelete"}
WithData == {"store", "update"}

\* a request without query parameters
NoQuery == [filter |-> EmptyData, sort |-> <<>>, search |-> "", include |-> <<>>,
            fields |-> {}]

Request(action, org, user, model, id, data) ==
    [action |-> action, org |-> org, user |-> user, model |-> model,
     id |-> id, data |-> data, query |-> NoQuery, page |-> 0, per_page |-> 0]

\* the requests of a set of callers, with the given ids and payloads
RequestsOf(callers, slugs, models, ids, payloads) ==
    { r \in [action : Actions, org : slugs, user : callers, model : models,
             id : ids \cup {0}, data : payloads \cup {EmptyData}, query : {NoQuery},
             page : {0}, per_page : {0}] :
        /\ (r.id # 0) <=> (r.action \in WithId)
        /\ (r.data # EmptyData) <=> (r.action \in WithData) }

\* guests, members and non-members against every organization slug
Requests ==
    RequestsOf({NoUser, "alice", "bob"}, Slugs, Crud, {1, 2},
               { [title |-> "T", blog_id |-> 1], [title |-> "T", blog_id |-> 2] })

NoRequest == Request("none", NoOrg, NoUser, "none", 0, EmptyData)
NoResponse == Response(0, "", {}, {})

\* --------------------------------------------------------------- the system

\* a seeded row; its credentials are set, its meta column is empty
Row(id, org, parent, title, status, deleted) ==
    [id |-> id, organization_id |-> org, parent_id |-> parent, title |-> title,
     status |-> status, password |-> "p", remember_token |-> "r", api_token |-> "k",
     meta |-> EmptyData, deleted_at |-> deleted]

\* the seeded database: one blog and one post in each organization
SeedDb ==
    [blogs    |-> {Row(1, "acme", 0, "T", "", FALSE), Row(2, "other", 0, "T", "", FALSE)},
     posts    |-> {Row(1, NoOrg, 1, "T", "", FALSE), Row(2, NoOrg, 2, "T", "", FALSE)},
     comments |-> {}]

\* no transaction is open
NoTransaction == Storage(EmptyData, EmptyData, <<>>)

\* the ids a list request of a member of acme reads, per model
Snapshot(d) == [m \in Crud |-> {x.id : x \in Live(InScope(d, m, "acme"))}]

\* no nested batch is in progress
InitBatch ==
    /\ opIndex = 0
    /\ tx = NoTransaction
    /\ opResults = <<>>
    /\ opErrors = {}
    /\ observed = [rows |-> [m \in Crud |-> {}], open |-> FALSE]
    /\ accessed = {}

\* setTimeout(() => setCopied(false), 2000)
CopiedFor == 2000

\* the landing page before GeneratorAnimation is mounted, the button never clicked
InitPage ==
    /\ mounted = FALSE
    /\ visible = FALSE
    /\ isIntersecting = FALSE
    /\ screen = 0
    /\ optionSelected = FALSE
    /\ typedName = <<>>
    /\ visibleColumns = 0
    /\ fileProgress = 0
    /\ showDone = FALSE
    /\ timers = <<>>
    /\ timersRef = {}
    /\ hasStartedRef = FALSE
    /\ copied = FALSE
    /\ copyTimers = <<>>
    /\ sinceClick = CopiedFor

Init ==
    /\ db = SeedDb
    /\ nextId = [blogs |-> 3, posts |-> 3, comments |-> 1]
    /\ audit = <<>>
    /\ writes = 0
    /\ req = NoRequest
    /\ resp = NoResponse
    /\ stage = "idle"
    /\ invitations = <<>>
    /\ memberships = {}
    /\ now = 0
    /\ InitBatch
    /\ InitPage

Idle == req = NoRequest

\* view($user, $post), update($user, $post), delete($user, $post), restore and
\* forceDelete: the policy method of an action on one record receives that record
PolicyRecord(r) == IF r.action \in WithId THEN {r.model} ELSE {}

\* the tables whose records a request has queried when its response is sent
Accessed(r) ==
    IF Unauthenticated(r) THEN {}
    ELSE IF r.org \notin Orgs \/ (r.user # NoUser /\ ~Member(r.user, r.org)) THEN {}
    ELSE IF r.action \notin Actions THEN {}
    ELSE IF ~Authorize(r.user, r.action, r.model, r.org) THEN PolicyRecord(r)
    ELSE {r.model}

\* one request through the pipeline; the response stays until the client takes it
Serve(r, out) ==
    /\ Idle
    /\ (out.st.db # db) => writes < MaxWrites
    /\ db' = out.st.db
    /\ nextId' = out.st.nextId
    /\ audit' = out.st.audit
    /\ writes' = IF out.st.db # db THEN writes + 1 ELSE writes
    /\ req' = r
    /\ resp' = out.resp
    /\ stage' = out.stage
    /\ accessed' = Accessed(r)
    /\ UNCHANGED <<pageVars, invitations, memberships, now, batchVars>>

Api(action, requests) ==
    /\ Idle
    /\ \E r \in requests :
          /\ r.action = action
          /\ Serve(r, Handle(Storage(db, nextId, audit), r))

Index == Api("index", Requests)
Show == Api("show", Requests)
Store == Api("store", Requests)
UpdateRecord == Api("update", Requests)
DestroyRecord == Api("destroy", Requests)
Trashed == Api("trashed", Requests)
RestoreRecord == Api("restore", Requests)
ForceDeleteRecord == Api("forceDelete", Requests)

CheckOrganization ==
    \E o \in Slugs, u \in {NoUser, "alice", "bob"} :
        LET r == Request("exists", o, u, "organizations", 0, EmptyData)
        IN  Serve(r, OrganizationExists(Storage(db, nextId, audit), r))

\* the client takes the response
Deliver ==
    /\ ~Idle
    /\ resp # NoResponse
    /\ req' = NoRequest
    /\ resp' = NoResponse
    /\ stage' = "idle"
    /\ accessed' = {}
    /\ UNCHANGED <<pageVars, db, nextId, audit, writes, invitations, memberships, now, batchVars>>

Next ==
    \/ Index \/ Show \/ Store \/ UpdateRecord \/ DestroyRecord
    \/ Trashed \/ RestoreRecord \/ ForceDeleteRecord
    \/ CheckOrganization
    \/ Deliver

Spec == Init /\ [][Next]_vars

\* ------------------------------------------- store and update in depth

\* every payload over title, status and blog_id, valid and invalid values alike
ValidationPayloads ==
    { t @@ st @@ b :
        t  \in {EmptyData, [title |-> "T"], [title |-> ""]},
        st \in {EmptyData, [status |-> "published"], [status |-> "bogus"]},
        b  \in {EmptyData, [blog_id |-> 1], [blog_id |-> 9]} } \ {EmptyData}

ValidationRequests ==
    { r \in RequestsOf(Users, {"acme"}, Crud, {1}, ValidationPayloads) :
        r.action \in WithData }

ValidatedStore == Api("store", ValidationRequests)
ValidatedUpdate == Api("update", ValidationRequests)

NextValidation == ValidatedStore \/ ValidatedUpdate \/ Deliver

SpecValidation == Init /\ [][NextValidation]_vars

\* ------------------------------------------- collections and includes in depth

\* posts and comments with different titles and statuses, in both organizations
QueryDb ==
    [blogs    |-> {Row(1, "acme", 0, "T", "", FALSE), Row(2, "other", 0, "T", "", FALSE)},
     posts    |-> {Row(1, NoOrg, 1, "B", "published", FALSE),
                   Row(2, NoOrg, 2, "A", "draft", FALSE),
                   Row(3, NoOrg, 1, "A", "draft", FALSE),
                   Row(4, NoOrg, 1, "A", "published", FALSE),
                   Row(5, NoOrg, 1, "B", "draft", TRUE)},
     comments |-> {Row(1, NoOrg, 1, "A", "", FALSE), Row(2, NoOrg, 3, "B", "", FALSE),
                   Row(3, NoOrg, 2, "A", "", FALSE)}]

InitQuery ==
    /\ db = QueryDb
    /\ nextId = [blogs |-> 3, posts |-> 6, comments |-> 4]
    /\ audit = <<>>
    /\ writes = 0
    /\ req = NoRequest
    /\ resp = NoResponse
    /\ stage = "idle"
    /\ invitations = <<>>
    /\ memberships = {}
    /\ now = 0
    /\ InitBatch
    /\ InitPage

\* query parameters, with and without entries outside the allow-lists
Queries ==
    [filter  : {EmptyData, [status |-> {"published"}], [status |-> {"draft", "published"}],
                [title |-> {"A"}], [status |-> {"draft"}, title |-> {"A"}]},
     sort    : {<<>>, <<SortBy("title", FALSE)>>, <<SortBy("title", TRUE)>>,
                <<SortBy("status", FALSE)>>,
                <<SortBy("status", FALSE), SortBy("title", FALSE)>>,
                <<SortBy("title", FALSE), SortBy("id", TRUE)>>},
     search  : {"", "A"},
     include : {<<>>, << <<"comments">> >>, << <<"blog">> >>, << <<"post">> >>,
                << <<"post", "blog">> >>, << <<"comments", "post">> >>,
                << <<"comments">>, <<"blog">> >>, << <<"blog">>, <<"comments">> >>,
                << <<"author">>, <<"comments">> >>},
     fields  : {{}, {"id", "title"}, {"title", "deleted_at"}, {"organization_id"}}]

\* a show request takes include and fields only
QueryRequests ==
    { [r EXCEPT !.query = q] :
        r \in { x \in RequestsOf({NoUser, "alice", "bob"}, Orgs, {"posts", "comments"},
                               {1}, {}) : x.action \in {"index", "show"} },
        q \in { x \in Queries : TRUE } }

ListRecords ==
    Api("index", QueryRequests)

ShowRecord ==
    Api("show", {r \in QueryRequests :
                    r.query.filter = EmptyData /\ r.query.sort = <<>> /\ r.query.search = ""})

NextQuery == ListRecords \/ ShowRecord \/ Deliver

SpecQuery == InitQuery /\ [][NextQuery]_vars

\* ------------------------------------------------------ pagination in depth

\* list requests of members for every page and page size, with and without a filter
PageRequests ==
    { [r EXCEPT !.page = p, !.per_page = s, !.query = [NoQuery EXCEPT !.filter = f]] :
        r \in { x \in RequestsOf({"alice", "bob"}, Orgs, {"posts", "comments"}, {}, {}) :
                   x.action \in {"index", "trashed"} },
        p \in 0..MaxPage, s \in 0..MaxPerPage,
        f \in {EmptyData, [status |-> {"draft"}], [title |-> {"A"}, author |-> {"x"}]} }

ListPage == Api("index", PageRequests)
ListTrashedPage == Api("trashed", {r \in PageRequests : r.query = NoQuery})

NextPagination == ListPage \/ ListTrashedPage \/ Deliver

SpecPagination == InitQuery /\ [][NextPagination]_vars

\* ------------------------------------------------- nested batches in depth

\* operations with literal values and with references to results 0 and 1
BatchOperations ==
    { Operation("create", "blogs", 0, [title |-> "T"], NoRefs),
      Operation("create", "posts", 0, [title |-> "A", blog_id |-> 1], NoRefs),
      Operation("create", "posts", 0, [title |-> "B"], [blog_id |-> Ref(0, "id")]),
      Operation("create", "posts", 0, [title |-> "B"], [blog_id |-> Ref(1, "id")]),
      Operation("create", "posts", 0, [title |-> "B"], [blog_id |-> Ref(0, "slug")]),
      Operation("create", "posts", 0, [blog_id |-> 1], [title |-> Ref(0, "title")]),
      Operation("create", "posts", 0, EmptyData, NoRefs),
      Operation("update", "posts", 0, [title |-> "B"], [id |-> Ref(0, "id")]),
      Operation("delete", "posts", 9, EmptyData, NoRefs) }

\* batches of one and two operations, and of three after a blog and a post
Batches ==
    { <<a>> : a \in BatchOperations }
    \cup { <<a, b>> : a \in BatchOperations, b \in BatchOperations }
    \cup { << Operation("create", "blogs", 0, [title |-> "T"], NoRefs),
              Operation("create", "posts", 0, [title |-> "A", blog_id |-> 1], NoRefs),
              c >> : c \in BatchOperations }

NestedRequest(org, user, operations) ==
    Request("nested", org, user, "nested", 0, EmptyData) @@ [operations |-> operations]

NestedRequests ==
    { NestedRequest(o, u, b) : o \in {"acme"}, u \in {"alice", "bob"}, b \in Batches }
    \cup { NestedRequest(o, u, << Operation("update", "posts", 1, [title |-> "B"], NoRefs) >>) :
              o \in Slugs, u \in Callers }

NestedOperations ==
    /\ Idle
    /\ \E r \in NestedRequests :
          LET out == Nested(Storage(db, nextId, audit), r)
          IN  /\ (out.st.db # db) => writes < MaxBatches
              /\ Serve(r, out)

NextNested == NestedOperations \/ Deliver

SpecNested == Init /\ [][NextNested]_vars

\* ------------------------------------------- a nested batch step by step

\* the handler of the request has not answered yet
Working == req # NoRequest /\ resp = NoResponse

\* the handler answers without a commit; an open transaction is rolled back
Answer(response, layer) ==
    /\ resp' = response
    /\ stage' = layer
    /\ opIndex' = 0
    /\ tx' = NoTransaction
    /\ opResults' = <<>>
    /\ opErrors' = {}
    /\ UNCHANGED <<pageVars, db, nextId, audit, writes, req, observed, invitations, memberships, now, accessed>>

\* the handler goes on with operation i of the loop of a layer
Continue(layer, i, storage, done, found) ==
    /\ stage' = layer
    /\ opIndex' = i
    /\ tx' = storage
    /\ opResults' = done
    /\ opErrors' = found
    /\ UNCHANGED <<pageVars, db, nextId, audit, writes, req, resp, observed, invitations, memberships, now, accessed>>

\* the batches sent: valid ones, and ones failing in every layer and at every step
StepBatches ==
    LET blog    == Operation("create", "blogs", 0, [title |-> "T"], NoRefs)
        post    == Operation("create", "posts", 0, [title |-> "A", blog_id |-> 1], NoRefs)
        child   == Operation("create", "posts", 0, [title |-> "B"], [blog_id |-> Ref(0, "id")])
        empty   == Operation("create", "posts", 0, EmptyData, NoRefs)
        halfRef == Operation("create", "posts", 0, EmptyData, [blog_id |-> Ref(0, "id")])
        missing == Operation("delete", "posts", 9, EmptyData, NoRefs)
        forward == Operation("create", "posts", 0, [title |-> "B"], [blog_id |-> Ref(1, "id")])
        comment == Operation("create", "comments", 0, [title |-> "C", post_id |-> 1], NoRefs)
    IN  { <<blog>>, <<post>>, <<blog, child>>, <<post, blog>>, <<blog, empty>>, <<empty, blog>>,
          <<blog, halfRef>>, <<empty, halfRef>>, <<blog, missing>>, <<blog, forward>>,
          <<blog, child, child>>, <<blog, child, missing>>, <<blog, child, child, child>>,
          <<post, post, post, empty>>, <<blog, comment>>, <<comment>> }

StepRequests ==
    { NestedRequest(o, u, b) : o \in {"acme", Ghost}, u \in Callers, b \in StepBatches }

\* the request arrives: middleware and limits, then the authorization loop starts
BeginBatch ==
    /\ Idle
    /\ \E r \in StepRequests :
          LET out == Nested(Storage(db, nextId, audit), r)
          IN  /\ (out.st.db # db) => writes < MaxBatches
              /\ IF out.stage \in {"auth", "organization", "limits"}
                 THEN Serve(r, out)
                 ELSE /\ req' = r
                      /\ stage' = "policy"
                      /\ opIndex' = 1
                      /\ UNCHANGED <<pageVars, db, nextId, audit, writes, resp, observed, tx,
                                     opResults, opErrors, invitations, memberships, now, accessed>>

\* the policy of one operation
AuthorizeStep ==
    /\ Working /\ stage = "policy"
    /\ LET op == req.operations[opIndex]
       IN  IF ~Authorize(req.user, PolicyAction[op.action], op.model, req.org)
           THEN Answer(Response(403, "This action is unauthorized.", {}, {}), "policy")
           ELSE IF opIndex < Len(req.operations)
           THEN Continue("policy", opIndex + 1, tx, opResults, opErrors)
           ELSE Continue("validation", 1, tx, opResults, opErrors)

\* the validation of one operation; the transaction begins after the last one
ValidateStep ==
    /\ Working /\ stage = "validation"
    /\ LET check == ValidateOperation(db, req.operations[opIndex], req.user, req.org)
           found == opErrors \cup {<<opIndex - 1, f>> : f \in check.errors}
       IN  IF check.status = 403
           THEN Answer(Response(403, "This action is unauthorized.", {}, {}), "validation")
           ELSE IF opIndex < Len(req.operations)
           THEN Continue("validation", opIndex + 1, tx, opResults, found)
           ELSE IF found # {}
           THEN Answer(Response(422, "Validation failed.", found, {}), "validation")
           ELSE Continue("action", 1, Storage(db, nextId, audit), opResults, {})

\* one operation inside the transaction
ExecuteStep ==
    /\ Working /\ stage = "action" /\ opIndex <= Len(req.operations)
    /\ LET op == req.operations[opIndex]
           out == Run(tx, req, Resolved(opResults, op))
       IN  IF \E f \in DOMAIN op.refs : Unresolvable(opResults, op.refs[f])
           THEN Answer(Response(422, "Validation failed.", {}, {}), "reference")
           ELSE IF ~out.ok
           THEN Answer(Response(out.status, out.message, {}, {}), "action")
           ELSE Continue("action", opIndex + 1, out.st, Append(opResults, out.result), {})

\* COMMIT: the writes of the transaction become the storage, the results are sent
Commit ==
    /\ Working /\ stage = "action" /\ opIndex > Len(req.operations)
    /\ db' = tx.db
    /\ nextId' = tx.nextId
    /\ audit' = tx.audit
    /\ writes' = writes + 1
    /\ resp' = [Response(200, "", {}, {}) EXCEPT !.body = opResults]
    /\ opIndex' = 0
    /\ tx' = NoTransaction
    /\ opResults' = <<>>
    /\ opErrors' = {}
    /\ UNCHANGED <<pageVars, req, stage, observed, invitations, memberships, now, accessed>>

\* a faulty variant: a concurrent request reads the writes of the open transaction
ReadUncommitted(committed, working) ==
    IF working = NoTransaction THEN committed ELSE working

\* what a concurrent request reads while a transaction is open
ReadCommitted(committed, working) == committed

\* a list request of another client, at any moment
Observe ==
    /\ observed' = [rows |-> Snapshot(ReadCommitted(Storage(db, nextId, audit), tx).db),
                    open |-> tx # NoTransaction]
    /\ observed' # observed
    /\ UNCHANGED <<pageVars, db, nextId, audit, writes, req, resp, stage, invitations, memberships, now, accessed,
                   opIndex, tx, opResults, opErrors>>

NextBatch ==
    \/ BeginBatch
    \/ AuthorizeStep
    \/ ValidateStep
    \/ ExecuteStep
    \/ Commit
    \/ Observe
    \/ Deliver

SpecBatch == Init /\ [][NextBatch]_vars

\* ------------------------------------------------------ the audit log in depth

\* payloads that set credentials, also inside the JSON column
AuditPayloads ==
    { [title |-> "T", blog_id |-> 1],
      [title |-> "T", blog_id |-> 1, password |-> "s", api_token |-> "s",
       meta |-> [profile |-> [password |-> "s", name |-> "n"]]],
      [title |-> "T", blog_id |-> 1, meta |-> [password |-> "s", theme |-> "dark"]],
      [title |-> "U"],
      [password |-> "s"],
      [title |-> "U", meta |-> [profile |-> [api_token |-> "s", name |-> "n"]]] }

AuditRequests ==
    { r \in RequestsOf({"alice", "bob"}, {"acme"}, Crud, {1, 3}, AuditPayloads) :
        r.action \in {"store", "update", "destroy", "restore", "forceDelete"} }

AuditedStore == Api("store", AuditRequests)
AuditedUpdate == Api("update", AuditRequests)
AuditedDestroy == Api("destroy", AuditRequests)
AuditedRestore == Api("restore", AuditRequests)
AuditedForceDelete == Api("forceDelete", AuditRequests)

NextAudit ==
    \/ AuditedStore \/ AuditedUpdate \/ AuditedDestroy
    \/ AuditedRestore \/ AuditedForceDelete
    \/ Deliver

SpecAudit == Init /\ [][NextAudit]_vars

\* ------------------------------------------------------------- invitations

\* config('lumina.invitations.expires_days')
ExpiresDays == 7

\* the e-mail addresses invited: carol is a user of acme, dave has no account yet
Invitees == {"carol", "dave"}

\* the token of the invitation link
Token(id) == <<"token", id>>

\* the Invitation object as the server creates it
Invitation(id, email, org, role, by, day) ==
    [id |-> id, email |-> email, org |-> org, role |-> role, status |-> "pending",
     invited_by |-> by, expires_at |-> day + ExpiresDays, token |-> Token(id)]

\* a faulty variant: the expiration date is not looked at
StoredStatus(inv, day) == inv.status

\* 'pending' | 'accepted' | 'expired' | 'cancelled': pending until expires_at is past
Status(inv, day) ==
    IF inv.status = "pending" /\ day > inv.expires_at THEN "expired" ELSE inv.status

InvitationRequest(action, org, user, id, data, token) ==
    [action |-> action, org |-> org, user |-> user, model |-> "invitations",
     id |-> id, data |-> data, token |-> token]

\* the outcome of an invitation request
Outcome(inv, mem, response) == [invitations |-> inv, memberships |-> mem, resp |-> response]

\* /api/{organization}/invitations runs behind the auth and organization middleware
Refused(r) ==
    IF r.user = NoUser THEN Response(401, "Unauthenticated.", {}, {})
    ELSE IF r.org \notin Orgs \/ ~Member(r.user, r.org)
    THEN Response(404, "Organization not found", {}, {})
    ELSE NoResponse

\* the invitations of the organization with this id
Invited(inv, org, id) == {i \in DOMAIN inv : i = id /\ inv[i].org = org}

\* POST /api/{organization}/invitations: no second pending invitation of an e-mail,
\* none for a member
Invite(inv, mem, day, r) ==
    LET id == Len(inv) + 1
        pending == \E i \in DOMAIN inv :
                      /\ inv[i].email = r.data.email /\ inv[i].org = r.org
                      /\ Status(inv[i], day) = "pending"
    IN  IF Refused(r) # NoResponse THEN Outcome(inv, mem, Refused(r))
        ELSE IF pending \/ Member(r.data.email, r.org)
        THEN Outcome(inv, mem, Response(422, "Validation failed.", {"email"}, {}))
        ELSE LET new == Invitation(id, r.data.email, r.org, r.data.role, r.user, day)
             IN  Outcome(Append(inv, new), mem, Response(201, "", {}, {new}))

\* POST /api/{organization}/invitations/{id}/resend: a pending invitation is sent
\* again and its expiration date refreshed
Resend(inv, mem, day, r) ==
    IF Refused(r) # NoResponse THEN Outcome(inv, mem, Refused(r))
    ELSE IF Invited(inv, r.org, r.id) = {}
    THEN Outcome(inv, mem, Response(404, "Not found.", {}, {}))
    ELSE IF Status(inv[r.id], day) # "pending"
    THEN Outcome(inv, mem, Response(422, "Validation failed.", {"status"}, {}))
    ELSE LET sent == [inv[r.id] EXCEPT !.expires_at = day + ExpiresDays]
         IN  Outcome([inv EXCEPT ![r.id] = sent], mem, Response(200, "", {}, {sent}))

\* DELETE /api/{organization}/invitations/{id}: only pending invitations
Cancel(inv, mem, day, r) ==
    IF Refused(r) # NoResponse THEN Outcome(inv, mem, Refused(r))
    ELSE IF Invited(inv, r.org, r.id) = {}
    THEN Outcome(inv, mem, Response(404, "Not found.", {}, {}))
    ELSE IF Status(inv[r.id], day) # "pending"
    THEN Outcome(inv, mem, Response(422, "Validation failed.", {"status"}, {}))
    ELSE LET gone == [inv[r.id] EXCEPT !.status = "cancelled"]
         IN  Outcome([inv EXCEPT ![r.id] = gone], mem, Response(200, "", {}, {gone}))

\* POST /api/invitations/accept { token }: a public route; the invited user
\* becomes a member of the organization with the role of the invitation
Accept(inv, mem, day, r) ==
    LET found == {i \in DOMAIN inv : inv[i].token = r.token}
        id == CHOOSE i \in found : TRUE
    IN  IF found = {} \/ Status(inv[id], day) # "pending"
        THEN Outcome(inv, mem, Response(422, "Validation failed.", {"token"}, {}))
        ELSE LET taken == [inv[id] EXCEPT !.status = "accepted"]
             IN  Outcome([inv EXCEPT ![id] = taken],
                         mem \cup {<<taken.email, taken.org, taken.role>>},
                         Response(200, "", {}, {taken}))

\* ------------------------------------------- the invitation flow in depth

\* alice invites to both of her organizations; an anonymous caller only accepts
InvitationRequests ==
    { InvitationRequest("invite", o, u, 0, [email |-> e, role |-> "viewer"], Token(0)) :
        o \in {"acme", "other"}, u \in {NoUser, "alice"}, e \in Invitees }
    \cup { InvitationRequest(a, o, "alice", id, EmptyData, Token(0)) :
        a \in {"resend", "cancel"}, o \in {"acme", "other"}, id \in 1..MaxInvitations }
    \cup { InvitationRequest("accept", NoOrg, NoUser, 0, EmptyData, Token(id)) :
        id \in 0..MaxInvitations }

\* the invitation routes
Route(inv, mem, day, r) ==
    CASE r.action = "invite" -> Invite(inv, mem, day, r)
      [] r.action = "resend" -> Resend(inv, mem, day, r)
      [] r.action = "cancel" -> Cancel(inv, mem, day, r)
      [] r.action = "accept" -> Accept(inv, mem, day, r)

\* one invitation request; the response stays until the client takes it
Invitations(action) ==
    /\ Idle
    /\ \E r \in InvitationRequests :
          LET out == Route(invitations, memberships, now, r)
          IN  /\ r.action = action
              /\ Len(out.invitations) <= MaxInvitations
              /\ invitations' = out.invitations
              /\ memberships' = out.memberships
              /\ req' = r
              /\ resp' = out.resp
              /\ stage' = "action"
              /\ UNCHANGED <<pageVars, db, nextId, audit, writes, now, accessed, batchVars>>

InviteUser == Invitations("invite")
ResendInvitation == Invitations("resend")
CancelInvitation == Invitations("cancel")
AcceptInvitation == Invitations("accept")

\* a day passes
NextDay ==
    /\ Idle
    /\ now < MaxDays
    /\ now' = now + 1
    /\ UNCHANGED <<pageVars, db, nextId, audit, writes, req, resp, stage, invitations, memberships,
                   batchVars, accessed>>

NextInvitations ==
    \/ InviteUser
    \/ ResendInvitation
    \/ CancelInvitation
    \/ AcceptInvitation
    \/ NextDay
    \/ Deliver

SpecInvitations == Init /\ [][NextInvitations]_vars

\* UserRole::create([user_id, organization_id, role_id]): a row is added to
\* user_roles whatever rows the user has there already
AssignRole ==
    /\ Idle
    /\ \E user \in Invitees, role \in {"editor"} :
          /\ <<user, "acme", role>> \notin memberships
          /\ memberships' = memberships \cup {<<user, "acme", role>>}
    /\ UNCHANGED <<pageVars, db, nextId, audit, writes, req, resp, stage, invitations, now,
                   batchVars, accessed>>

NextMembership == NextInvitations \/ AssignRole

SpecMembership == Init /\ [][NextMembership]_vars

\* ------------------------------------------------------------------ claims

ApiRequest == ~Idle /\ req.action \in Actions

\* the role assignments of a user in one organization, read off user_roles
RolesIn(user, org) == {t[3] : t \in {x \in UserRoles : x[1] = user /\ x[2] = org}}

\* exact match, then "{slug}.*", then "*"
Lookup(r) == <<r.model \o "." \o r.action, r.model \o ".*", "*">>
Granted(r) ==
    \E role \in RolesIn(r.user, r.org) :
        \E i \in 1..3 : Lookup(r)[i] \in RolePermissions[role]

\* C2: every record a request scoped to organization A returns or creates belongs
\* to A, directly or through the owner path.
C2_TenantIsolation ==
    ApiRequest => \A row \in resp.data : RowOrg(db, req.model, row) = req.org

\* the response to the same request sent to a slug that names no organization
GhostResponse ==
    LET r == [req EXCEPT !.org = Ghost]
        st == Storage(db, nextId, audit)
    IN  IF req.action = "exists" THEN OrganizationExists(st, r).resp
        ELSE Handle(st, r).resp

\* C3: a caller without a role in an existing organization gets the response a
\* slug without organization gets, in status and content.
C3_NoTenantEnumeration ==
    (~Idle /\ req.user \in Users /\ req.org \in Orgs /\ RolesIn(req.user, req.org) = {})
        => /\ resp.status = GhostResponse.status
           /\ resp.message = GhostResponse.message

\* C4: the policy allows a request exactly when the permissions of the role the
\* user holds in the organization of the request contain "{slug}.{action}",
\* "{slug}.*" or "*"; otherwise the request is denied with a 403.
C4_WildcardLookup ==
    (ApiRequest /\ stage \notin {"auth", "organization"})
        => /\ (stage = "policy") <=> ~Granted(req)
           /\ (stage = "policy") => resp.status = 403

C4_Witness ==
    /\ req.user = "alice" /\ req.org = "other"
    /\ req.model = "posts" /\ req.action = "store"
    /\ stage = "policy" /\ resp.status = 403

C10_Rule(r, s, unchanged) ==
    /\ (r.user = NoUser /\ r.model \notin Public) => s.status = 401
    /\ (r.user \in Users /\ RolesIn(r.user, r.org) # {} /\ ~Granted(r)) => s.status = 403
    /\ s.status = 401 => r.user = NoUser
    /\ s.status = 403 => (r.user \in Users \/ r.model \in Public)
    /\ s.status \in {401, 403} => (unchanged /\ s.data = {})

\* C10: without credentials a request to a non-public model is answered 401, with
\* credentials but without the permission it is answered 403, never the other way
\* round, and a denied request returns no data and changes nothing.
C10_DistinctDenials ==
    [][(Idle /\ req'.action \in Actions)
          => C10_Rule(req', resp', db' = db /\ audit' = audit /\ nextId' = nextId)]_vars

C10_Witness ==
    /\ req.user = NoUser /\ req.org = "acme" /\ req.model = "posts"
    /\ resp.status = 401 /\ resp.data = {}

\* the request without the payload fields that the caller's rule layer does not list
Listed(r) == DOMAIN ResolveLayer(r.model, r.action, RoleOf(r.user, r.org))
Stripped(r) == [r EXCEPT !.data = [f \in (DOMAIN r.data) \cap Listed(r) |-> r.data[f]]]

\* the value a row field has when the request does not set it
Untouched(d, r, row, f) ==
    IF r.action = "store"
    THEN IF f = "parent_id" THEN row[f] = 0 ELSE row[f] = ""
    ELSE \E old \in d[r.model] : old.id = row.id /\ old[f] = row[f]

C5_Rule(r, s, d, n, a, d2, a2) ==
    LET out == Handle(Storage(d, n, a), Stripped(r))
        column(f) == IF f = "blog_id" THEN "parent_id" ELSE f
    IN  /\ s = out.resp
        /\ d2 = out.st.db
        /\ a2 = out.st.audit
        /\ \A row \in s.data : \A f \in (DOMAIN r.data) \ Listed(r) :
              Untouched(d, r, row, column(f))

\* C5: a store or update request answers and persists exactly as the same request
\* without the payload fields that are not in the rule layer of the caller's role:
\* such a field causes no error and its value is not in the persisted record.
C5_UnlistedFieldsDropped ==
    [][(Idle /\ req'.action \in WithData /\ req'.model \in Models)
          => C5_Rule(req', resp', db, nextId, audit, db', audit')]_vars

C5_Witness ==
    /\ req.user = "bob" /\ req.action = "store" /\ req.model = "posts"
    /\ "status" \in DOMAIN req.data
    /\ resp.status = 201
    /\ \A row \in resp.data : row.status = ""

C9_Rule(r, s, st, d, unchanged) ==
    LET set == ActionRules(r.model, r.action)
        slugs == RolesIn(r.user, r.org) \cap DOMAIN set.roles
        entry == IF slugs # {} THEN set.roles[CHOOSE x \in slugs : TRUE]
                 ELSE set.roles["*"]
        bad == {f \in DOMAIN entry : FieldFails(d, r.model, entry, r.data, f)}
    IN  (set.kind = "roles" /\ st \in {"validation", "action"} /\ s.status # 404) =>
            IF slugs = {} /\ "*" \notin DOMAIN set.roles
            THEN s.status = 403 /\ st = "validation" /\ unchanged
            ELSE IF bad # {}
            THEN s.status = 422 /\ s.errors = bad /\ unchanged
            ELSE /\ s.status \in {200, 201}
                 /\ \A row \in s.data : \A f \in (DOMAIN r.data) \ DOMAIN entry :
                        Untouched(d, r, row, IF f = "blog_id" THEN "parent_id" ELSE f)

\* a caller whose role slug is null
C9_NullSlug(d) ==
    \A a \in WithData : \A p \in ValidationPayloads :
        LET v == Validate(d, "posts", a, NoUser, "acme", p)
            star == "*" \in DOMAIN ActionRules("posts", a).roles
        IN  /\ ~star => v.status = 403
            /\ star => /\ v.status \in {200, 422}
                       /\ (DOMAIN v.data) \cup v.errors
                              \subseteq DOMAIN ActionRules("posts", a).roles["*"]

\* C9: with role-keyed store or update rules the entry of the caller's role slug is
\* used, else the "*" entry; without either the request ends with an authorization
\* error (403), not a validation error, and nothing is persisted.
C9_RoleKeyedFallback ==
    [][(Idle /\ req'.action \in WithData /\ req'.model \in Models)
          => /\ C9_Rule(req', resp', stage', db,
                        db' = db /\ audit' = audit /\ nextId' = nextId)
             /\ C9_NullSlug(db)]_vars

C9_Witness ==
    /\ req.user = "carol" /\ req.action = "update" /\ req.model = "posts"
    /\ stage = "validation" /\ resp.status = 403
    /\ db = SeedDb

\* the include paths of a request that the model allow-lists
Loadable(r) ==
    {r.query.include[i] : i \in 1..Len(r.query.include)} \cap AllowedIncludes[r.model]

\* the relations, as path and position, whose resource the caller may not list
Forbidden(r) ==
    { x \in Loadable(r) \X (1..2) :
        /\ x[2] <= Len(x[1])
        /\ ~Granted([r EXCEPT !.model = Resources(r.model, x[1])[x[2]],
                              !.action = "index"]) }

C7_Rule(r, s, st) ==
    (st \in {"include", "action"}) =>
        IF Forbidden(r) # {}
        THEN /\ s.status = 403 /\ st = "include"
             /\ s.data = {} /\ s.body = <<>>
             /\ \E x \in Forbidden(r) :
                   s.message = "You do not have permission to include "
                                   \o x[1][x[2]] \o "."
        ELSE /\ st = "action"
             /\ s.status = 200 =>
                   \A row \in s.data :
                       Loadable(r) # {} =>
                           /\ "included" \in DOMAIN row
                           /\ DOMAIN row.included = Loadable(r)

\* C7: a list or show request that includes allow-listed relations, nested ones
\* too, is rejected with 403 naming the relation and without data when the caller
\* lacks the index permission of any included resource; otherwise every such
\* relation is loaded, none is dropped.
C7_IncludeAuthorization ==
    [][(Idle /\ req'.action \in {"index", "show"}) => C7_Rule(req', resp', stage')]_vars

C7_Witness ==
    /\ req.user = "bob" /\ req.org = "acme" /\ req.model = "comments"
    /\ req.action = "index"
    /\ req.query.include = << <<"post", "blog">> >>
    /\ stage = "include" /\ resp.status = 403
    /\ resp.message = "You do not have permission to include blog."

RECURSIVE PickFrom(_, _, _)
PickFrom(seq, keep, i) ==
    IF i > Len(seq) THEN <<>>
    ELSE (IF i \in keep THEN <<seq[i]>> ELSE <<>>) \o PickFrom(seq, keep, i + 1)

\* the sets between the allow-listed members of a set and the whole set
Between(all, listed) == {listed \cup x : x \in SUBSET (all \ listed)}

\* the request with any of its entries outside the allow-lists left out
Variants(r) ==
    LET q == r.query
        m == r.model
    IN  { [r EXCEPT !.query =
              [filter  |-> [a \in D |-> q.filter[a]],
               sort    |-> PickFrom(q.sort, I, 1),
               search  |-> q.search,
               include |-> PickFrom(q.include, J, 1),
               fields  |-> F]] :
            D \in Between(DOMAIN q.filter, DOMAIN q.filter \cap AllowedFilters[m]),
            I \in Between(DOMAIN q.sort,
                          {i \in DOMAIN q.sort : q.sort[i].field \in AllowedSorts[m]}),
            J \in Between(DOMAIN q.include,
                          {i \in DOMAIN q.include : q.include[i] \in AllowedIncludes[m]}),
            F \in Between(q.fields, q.fields \cap AllowedFields[m]) }

\* C8: a list request answers exactly as the same request without any of its
\* filter, sort, include or field entries that are outside the allow-lists of the
\* model, and such an entry causes no error.
C8_UnlistedEntriesInert ==
    [][(Idle /\ req'.action = "index") =>
          \A r \in Variants(req') :
              /\ Handle(Storage(db, nextId, audit), r).resp = resp'
              /\ resp'.status \in {200, 401, 403, 404}]_vars

C8_Witness ==
    /\ req.action = "index" /\ req.model = "posts"
    /\ "title" \in DOMAIN req.query.filter
    /\ Len(req.query.sort) = 2
    /\ req.query.fields = {"title", "deleted_at"}
    /\ resp.status = 200
    /\ \E row \in resp.data : row.title = "B"

\* C1: a nested batch that fails at any operation (authorization, validation,
\* reference, missing record or constraint violation) leaves the records of every
\* table and the audit log exactly as they were before the request.
C1_BatchAtomicity ==
    [][(Idle /\ req'.action = "nested" /\ resp'.status # 200)
          => (db' = db /\ audit' = audit)]_vars

C1_Witness ==
    /\ req.action = "nested" /\ req.user = "alice"
    /\ Len(req.operations) = 2
    /\ req.operations[1] =
          Operation("create", "posts", 0, [title |-> "A", blog_id |-> 1], NoRefs)
    /\ stage = "action" /\ resp.status = 500
    /\ db = SeedDb /\ audit = <<>>

C6_Rule(r, s, st, unchanged) ==
    LET ops == r.operations
        refs == {x \in (DOMAIN ops) \X {"id", "title", "blog_id"} :
                    x[2] \in DOMAIN ops[x[1]].refs}
        ref(x) == ops[x[1]].refs[x[2]]
        written(x) ==
            x[2] \in DOMAIN ResolveLayer(ops[x[1]].model, PolicyAction[ops[x[1]].action],
                                         RoleOf(r.user, r.org))
    IN  /\ (\E x \in refs : ref(x).n >= x[1] - 1) =>
              (s.status # 200 /\ s.body = <<>> /\ unchanged)
        /\ st = "reference" => (s.status = 422 /\ s.body = <<>> /\ unchanged)
        /\ s.status = 200 =>
              \A x \in refs :
                  LET source == s.body[ref(x).n + 1]
                      target == s.body[x[1]]
                      field == Column(source.model, ref(x).f)
                  IN  /\ ref(x).n < x[1] - 1
                      /\ field \in DOMAIN source.data
                      /\ x[2] = "id" => target.id = source.data[field]
                      /\ (x[2] # "id" /\ written(x)) =>
                            target.data[Column(target.model, x[2])] = source.data[field]

\* C6: "$N.field" in operation i (counted from 0) takes the value of that field in
\* the result of operation N when N < i; a batch with a reference to the same or a
\* later operation, or to a field the result lacks, fails as a whole, reports no
\* result and changes nothing.
C6_ReferenceResolution ==
    [][(Idle /\ req'.action = "nested") =>
          C6_Rule(req', resp', stage', db' = db /\ audit' = audit /\ nextId' = nextId)]_vars

C6_Witness ==
    /\ req.action = "nested" /\ req.user = "alice"
    /\ Len(req.operations) = 2
    /\ req.operations[1] = Operation("create", "blogs", 0, [title |-> "T"], NoRefs)
    /\ req.operations[2] =
          Operation("create", "posts", 0, [title |-> "B"], [blog_id |-> Ref(1, "id")])
    /\ stage = "reference" /\ resp.status = 422
    /\ db = SeedDb

\* a key of the set occurs in the JSON value, at any depth
RECURSIVE Mentions(_, _)
Mentions(json, keys) ==
    \/ (DOMAIN json) \cap keys # {}
    \/ \E k \in (DOMAIN json) \cap JsonObjects : Mentions(json[k], keys)

\* the fields an audit entry of the model must not hold
Secret(m) == {"password", "remember_token"} \cup AuditExclude[m]

Clean(m, side) ==
    /\ (DOMAIN side.values) \cap Secret(m) = {}
    /\ "meta" \in DOMAIN side.values => ~Mentions(side.values["meta"], Secret(m))

\* C11: no audit entry holds password, remember_token or a field of $auditExclude
\* of its model in old_values or new_values, also not inside a JSON value and also
\* when the list of the model is empty.
C11_ExcludedNeverLogged ==
    \A i \in DOMAIN audit :
        /\ Clean(audit[i].model, audit[i].old_values)
        /\ Clean(audit[i].model, audit[i].new_values)

C11_Witness ==
    \E i \in DOMAIN audit : \E row \in db["posts"] :
        /\ audit[i].model = "posts" /\ audit[i].action = "created"
        /\ audit[i].id = row.id
        /\ row.password = "s" /\ row.api_token = "s"
        /\ "profile" \in DOMAIN row.meta /\ row.meta["profile"]["password"] = "s"
        /\ "meta" \in DOMAIN audit[i].new_values.values
        /\ "name" \in DOMAIN audit[i].new_values.values["meta"]["profile"]

\* C12: in every audit entry old_values is null exactly for the actions created and
\* restored, and new_values is null exactly for deleted and force_deleted.
C12_NullValues ==
    \A i \in DOMAIN audit :
        /\ audit[i].old_values.null <=> audit[i].action \in {"created", "restored"}
        /\ audit[i].new_values.null <=> audit[i].action \in {"deleted", "force_deleted"}

C12_Witness ==
    /\ Len(audit) = 2
    /\ audit[1].action = "deleted" /\ audit[1].new_values.null
    /\ audit[2].action = "restored" /\ audit[2].old_values.null
    /\ ~audit[2].new_values.null

\* the persisted fields of a row as an audit entry of its model may hold them
Recorded(m, row) ==
    [f \in {"title", "status", "parent_id", "api_token", "meta"} \ Secret(m) |->
        IF f = "meta" THEN Scrub(row[f], Secret(m)) ELSE row[f]]

\* the entries a request has added to the audit log
Added(before, after) == SubSeq(after, Len(before) + 1, Len(after))

C13_Rule(r, s, d, d2, added) ==
    /\ (r.action = "store" /\ s.status = 201) =>
          \E row \in d2[r.model] \ d[r.model] :
              /\ \A x \in s.data : x.id = row.id
              /\ Len(added) = 1
              /\ added[1].action = "created" /\ added[1].id = row.id
              /\ added[1].new_values = Values(Recorded(r.model, row))
    /\ (r.action = "destroy" /\ s.status = 200) =>
          \E row \in d[r.model] \ d2[r.model] :
              /\ row.id = r.id
              /\ Len(added) = 1
              /\ added[1].action = "deleted" /\ added[1].id = row.id
              /\ added[1].old_values = Values(Recorded(r.model, row))
              /\ added[1].new_values = NullValues

\* C13: creating a record of an audited model adds exactly one created entry whose
\* new_values are the persisted fields without the excluded ones; soft-deleting it
\* adds exactly one deleted entry whose old_values are the persisted fields without
\* the excluded ones and whose new_values is null.
C13_AuditRoundTrip ==
    [][(Idle /\ req'.model \in Audited) =>
          C13_Rule(req', resp', db, db', Added(audit, audit'))]_vars

C13_Witness ==
    /\ req.action = "destroy" /\ req.model = "posts" /\ req.id = 3
    /\ resp.status = 200
    /\ Len(audit) = 2
    /\ audit[1].action = "created" /\ audit[1].id = 3
    /\ audit[2].action = "deleted" /\ audit[2].id = 3
    /\ audit[2].old_values = audit[1].new_values
    /\ "meta" \in DOMAIN audit[1].new_values.values
    /\ DOMAIN audit[1].new_values.values["meta"] = {"theme"}

\* C14: the audit log only grows: whatever a request does and however it ends,
\* every entry that was in the log before is in it afterwards, at the same place
\* and with the same content.
C14_AppendOnly ==
    [][/\ Len(audit') >= Len(audit)
       /\ \A i \in DOMAIN audit : audit'[i] = audit[i]]_vars

C14_Witness ==
    /\ req.action = "forceDelete" /\ req.model = "posts" /\ resp.status = 200
    /\ Len(audit) = 2
    /\ audit[1].model = "posts" /\ audit[1].id = req.id /\ audit[1].action = "updated"
    /\ audit[2].action = "force_deleted"
    /\ ~\E row \in db["posts"] : row.id = req.id

\* the ids in the index and in the trashed list of a model in an organization
Ids(rows) == {row.id : row \in rows}
IndexOf(d, n, a, m, o) ==
    Ids(Dispatch(Storage(d, n, a), Request("index", o, "alice", m, 0, EmptyData)).resp.data)
TrashedOf(d, n, a, m, o) ==
    Ids(Dispatch(Storage(d, n, a), Request("trashed", o, "alice", m, 0, EmptyData)).resp.data)

\* every record is in exactly one list, of exactly one organization
C15_Partition(d, n, a) ==
    \A m \in Crud : \A row \in d[m] :
        \E o \in Orgs :
            /\ (row.id \in IndexOf(d, n, a, m, o)) # (row.id \in TrashedOf(d, n, a, m, o))
            /\ (row.id \in IndexOf(d, n, a, m, o)) <=> ~row.deleted_at
            /\ \A p \in Orgs \ {o} :
                  row.id \notin IndexOf(d, n, a, m, p) \cup TrashedOf(d, n, a, m, p)

C15_Moves(r, s, d, n, a, d2, n2, a2) ==
    LET m == r.model
        o == r.org
    IN  /\ (r.action = "destroy" /\ s.status = 200) =>
              /\ r.id \in IndexOf(d, n, a, m, o)
              /\ r.id \in TrashedOf(d2, n2, a2, m, o) \ IndexOf(d2, n2, a2, m, o)
        /\ (r.action = "restore" /\ s.status = 200) =>
              /\ r.id \in TrashedOf(d, n, a, m, o)
              /\ r.id \in IndexOf(d2, n2, a2, m, o) \ TrashedOf(d2, n2, a2, m, o)
        /\ (r.action = "forceDelete" /\ s.status = 200) =>
              \A p \in Orgs :
                  r.id \notin IndexOf(d2, n2, a2, m, p) \cup TrashedOf(d2, n2, a2, m, p)

\* C15: every record is in the index when deleted_at is null and in the trashed
\* list otherwise, never in both; DELETE moves it to the trashed list, restore back
\* to the index, force-delete out of both, and an id that is gone stays gone.
C15_SoftDeleteLists ==
    [][/\ C15_Partition(db', nextId', audit')
       /\ (Idle /\ req'.model \in Crud) =>
              C15_Moves(req', resp', db, nextId, audit, db', nextId', audit')
       /\ \A m \in Crud : \A id \in 1..(nextId[m] - 1) :
              id \notin Ids(db[m]) => id \notin Ids(db'[m])]_vars

C15_Witness ==
    /\ req.action = "forceDelete" /\ req.model = "posts" /\ resp.status = 200
    /\ Len(audit) = 2
    /\ audit[1].action = "deleted" /\ audit[1].id = req.id
    /\ req.id \notin Ids(db["posts"])

\* ------------------------------------------------------------------- C17

\* the columns of the records of the current response
Columns == UNION {DOMAIN x : x \in resp.data}

\* C17: every record of every response leaves out the base hidden columns, the
\* additional hidden columns of its model and the columns the policy hides from
\* the caller
C17_HiddenColumnsOmitted ==
    req # NoRequest =>
        Columns \cap HiddenColumns(req.model, req.user, req.org) = {}

\* ------------------------------------------------------------------- C18

\* the fields of a simple store list that the payload leaves out
Omitted(r) == ActionRules(r.model, "store").fields \ DOMAIN r.data

C18_Rule(r, s, st, unchanged) ==
    (st \in {"validation", "action"} /\ Omitted(r) # {}) =>
        /\ s.status = 422
        /\ st = "validation"
        /\ Omitted(r) \subseteq s.errors
        /\ s.data = {}
        /\ unchanged

Holders(token) == {i \in DOMAIN invitations : invitations[i].token = token}

\* pending and not past its expiration date
Open(i) == invitations[i].status = "pending" /\ now <= invitations[i].expires_at

\* the user_roles row an invitation stands for
Seat(i) == <<invitations[i].email, invitations[i].org, invitations[i].role>>

C19_Accept ==
    (Idle /\ req'.action = "accept") =>
        IF \E i \in Holders(req'.token) : Open(i)
        THEN \E i \in Holders(req'.token) :
                /\ resp'.status = 200
                /\ invitations' = [invitations EXCEPT ![i].status = "accepted"]
                /\ memberships' = memberships \cup {Seat(i)}
                /\ RoleOf(invitations[i].email, invitations[i].org)' # NoRole
        ELSE /\ resp'.status >= 400
             /\ UNCHANGED <<invitations, memberships>>

C19_Cancel ==
    (Idle /\ req'.action = "cancel") =>
        IF resp'.status = 200
        THEN /\ req'.id \in DOMAIN invitations
             /\ Open(req'.id)
             /\ invitations' = [invitations EXCEPT ![req'.id].status = "cancelled"]
        ELSE UNCHANGED invitations

\* C19: an invitation is accepted only with the token of an invitation that is
\* pending and not expired; the accept then makes the invited user a member of the
\* organization and the invitation accepted. Any other token (unknown, expired,
\* cancelled, already accepted) is refused and adds no membership, and only a
\* pending invitation can be cancelled.
C19_InvitationLifecycle ==
    [][/\ C19_Accept
       /\ C19_Cancel
       /\ (memberships' # memberships) => (req'.action = "accept" /\ resp'.status = 200)]_vars

C19_Witness ==
    /\ req.action = "accept" /\ resp.status = 200
    /\ now > 0
    /\ \E i \in DOMAIN invitations :
          /\ invitations[i].status = "accepted" /\ invitations[i].email = "dave"
          /\ RoleOf("dave", invitations[i].org) = invitations[i].role

\* ------------------------------------------------------------------- C20

\* the records that match the scoped and filtered query of the current request
Matching ==
    {x \in InScope(db, req.model, req.org) :
        /\ x.deleted_at <=> (req.action = "trashed")
        /\ \A a \in (DOMAIN req.query.filter) \cap AllowedFilters[req.model] :
              x[a] \in req.query.filter[a]}

\* a page request with both parameters sent
C20_Paginated ==
    (PaginationEnabled[req.model] /\ req.page > 0 /\ req.per_page > 0) =>
        LET h == resp.headers
            total == Cardinality(Matching)
        IN  /\ Len(resp.body) <= req.per_page
            /\ {x.id : x \in resp.data} \subseteq {x.id : x \in Matching}
            /\ h["X-Total"] = total
            /\ h["X-Per-Page"] = req.per_page
            /\ h["X-Current-Page"] = req.page
            /\ total > 0 =>
                  /\ (h["X-Last-Page"] - 1) * req.per_page < total
                  /\ total <= h["X-Last-Page"] * req.per_page

C20_Unpaginated ==
    ~PaginationEnabled[req.model] =>
        /\ Len(resp.body) = Cardinality(Matching)
        /\ {x.id : x \in resp.data} = {x.id : x \in Matching}

\* C20: a list response of a paginated model for page p and page size s holds at
\* most s records, X-Total is the number of records matching the scoped and
\* filtered query, X-Per-Page is s, X-Current-Page is p and, when records match,
\* X-Last-Page is the least n with n * s >= X-Total; a model with pagination
\* switched off answers with every matching record.
C20_PaginationHeaders ==
    (req.action \in {"index", "trashed"} /\ resp.status = 200) =>
        (C20_Paginated /\ C20_Unpaginated)

C20_Witness ==
    /\ req.action = "index" /\ req.model = "posts" /\ req.org = "acme"
    /\ req.page = 2 /\ req.per_page = 2 /\ req.query = NoQuery
    /\ resp.status = 200
    /\ Len(resp.body) = 1
    /\ resp.headers["X-Total"] = 3 /\ resp.headers["X-Last-Page"] = 2

\* ------------------------------------------------------------------- C21

\* the fields of operation i of the batch that fail the rules of the caller's role
Failing(r, i) ==
    LET op == r.operations[i]
        layer == ResolveLayer(op.model, PolicyAction[op.action], RoleOf(r.user, r.org))
    IN  IF op.action = "delete" \/ layer = NoLayer THEN {}
        ELSE {f \in (DOMAIN layer) \ DOMAIN op.refs :
                FieldFails(db, op.model, layer, op.data, f)}

\* operation i is not permitted to the caller, or there are no rules for the role
Denied(r, i) ==
    LET op == r.operations[i]
    IN  \/ ~HasPermission(r.user, op.model, PolicyAction[op.action], r.org)
        \/ /\ op.action # "delete"
           /\ ResolveLayer(op.model, PolicyAction[op.action], RoleOf(r.user, r.org)) = NoLayer

\* some operation of the batch fails authorization or validation
Flawed(r) == \E i \in DOMAIN r.operations : Denied(r, i) \/ Failing(r, i) # {}

\* the transaction of a batch is open only when every operation has passed both
C21_ChecksFirst ==
    (Working /\ (tx # NoTransaction \/ stage = "action")) => ~Flawed(req)

\* a flawed batch is answered from the policy or the validation layer; nothing has
\* run, and a 422 names every failing field of every operation
C21_Refusal ==
    (Working /\ resp' # NoResponse /\ Flawed(req)) =>
        /\ stage' \in {"policy", "validation"}
        /\ resp'.status = IF \E i \in DOMAIN req.operations : Denied(req, i) THEN 403 ELSE 422
        /\ resp'.status = 422 =>
              resp'.errors = UNION { {<<i - 1, f>> : f \in Failing(req, i)} :
                                      i \in DOMAIN req.operations }
        /\ tx = NoTransaction
        /\ UNCHANGED <<db, nextId, audit>>

C22_DecidedBeforeAccess ==
    (ApiRequest /\ stage \in {"auth", "organization", "policy"}) => accessed = {}

\* ------------------------------------------------------------------- C23

\* the batch exceeds max_operations or names a model outside allowed_models
Excessive(r) ==
    \/ Len(r.operations) > NestedConfig.max_operations
    \/ \E i \in DOMAIN r.operations :
          r.operations[i].model \notin NestedConfig.allowed_models

C23_Rule(r, s, st) ==
    IF Excessive(r)
    THEN /\ st = "limits"
         /\ s.status \in 400..499
         /\ s.body = <<>>
         /\ UNCHANGED <<db, nextId, audit, tx>>
    ELSE st # "limits"

\* C23: a nested batch of a member with more than max_operations operations, or
\* with an operation on a model outside allowed_models, is refused as a whole at
\* once, before any operation is authorized, validated or run and with storage
\* untouched; a batch of exactly max_operations operations on allowed models is not
\* refused by this check.
C23_BatchLimits ==
    [][(Idle /\ req'.action = "nested" /\ req'.org \in Orgs
          /\ RoleOf(req'.user, req'.org) # NoRole)
          => C23_Rule(req', resp', stage')]_vars

C23_Witness ==
    /\ req.action = "nested" /\ req.user = "alice"
    /\ Len(req.operations) = NestedConfig.max_operations + 1
    /\ stage = "limits" /\ resp.status = 422
    /\ db = SeedDb /\ audit = <<>> /\ tx = NoTransaction

\* ------------------------------------------------------------------- C24

\* a concurrent request reads the storage as the last commit left it
C24_Isolated == (observed' # observed) => observed'.rows = Snapshot(db)

\* the storage changes in one step, to the state after every operation of the batch
C24_CommittedWhole ==
    (db' # db \/ audit' # audit \/ nextId' # nextId) =>
        LET whole == Execute(Storage(db, nextId, audit), req, 1, <<>>)
        IN  /\ Working /\ req.action = "nested"
            /\ whole.ok
            /\ db' = whole.st.db /\ audit' = whole.st.audit /\ nextId' = whole.st.nextId
            /\ resp'.status = 200
            /\ Len(resp'.body) = Len(req.operations)

\* C24: a nested batch runs in one transaction held for the whole batch: what a
\* concurrent request reads never holds the effect of only some of its operations,
\* and the storage takes the effects of all operations in a single commit.
C24_SingleTransaction ==
    [][C24_Isolated /\ C24_CommittedWhole]_vars

C24_Witness ==
    /\ Working /\ Len(req.operations) >= 2
    /\ tx # NoTransaction /\ Len(opResults) = 1
    /\ Snapshot(tx.db) # Snapshot(db)
    /\ observed.open /\ observed.rows = Snapshot(db)

\* ------------------------------------------------------------------- C25

\* the requested sort entries whose field is in $allowedSorts, in the order given
Applied(m, sorts) ==
    PickFrom(sorts, {i \in DOMAIN sorts : sorts[i].field \in AllowedSorts[m]}, 1)

\* the sort in force: the applied entries, or $defaultSort when there are none
InForce(m, sorts) ==
    IF Applied(m, sorts) = <<>> THEN DefaultSort[m] ELSE Applied(m, sorts)

\* x is placed before y by the first entry, from the left, on which they differ
Precedes(x, y, sorts) ==
    \E k \in 1..Len(sorts) :
        /\ \A l \in 1..(k - 1) : x[sorts[l].field] = y[sorts[l].field]
        /\ IF sorts[k].desc
           THEN SortKey(x, sorts[k].field) > SortKey(y, sorts[k].field)
           ELSE SortKey(x, sorts[k].field) < SortKey(y, sorts[k].field)

\* the arrangements of a set of rows in a sequence
Orderings(rows) ==
    {f \in [1..Cardinality(rows) -> rows] : \A i, j \in DOMAIN f : f[i] = f[j] => i = j}

C25_Rule(d, r, body) ==
    LET m == r.model
        q == Accepted(m, r.query)
        matching == Searched(m, Filtered(Live(InScope(d, m, r.org)), q.filter), q.search)
        sorts == InForce(m, r.query.sort)
    IN  \E order \in Orderings(matching) :
            /\ body = [i \in 1..Len(order) |-> Serialized(d, m, order[i], q, r.user, r.org)]
            /\ \A i, j \in 1..Len(order) : i < j => ~Precedes(order[j], order[i], sorts)

RECURSIVE Join(_)
Join(rule) ==
    IF Len(rule) = 1 THEN rule[1] ELSE rule[1] \o "|" \o Join(Tail(rule))

C26_Rule(m, layer, f) ==
    LET value == Join(layer[f])
        rule == Join(EffectiveRule(m, layer, f))
    IN  /\ value \in PresenceModifiers => rule = value \o "|" \o Join(BaseRules[m][f])
        /\ Len(layer[f]) > 1 => rule = value

\* C26: for every field of the store or update rule layer resolved for the caller,
\* a value that is exactly required, nullable or sometimes gives the rule
\* "<modifier>|<base rule>", and a value that contains "|" is the rule itself,
\* the base rule not being used.
C26_PresenceModifiers ==
    (ApiRequest /\ req.action \in {"store", "update"} /\ stage \in {"validation", "action"})
        => LET layer == ResolveLayer(req.model, req.action, RoleOf(req.user, req.org))
           IN  layer # NoLayer => \A f \in DOMAIN layer : C26_Rule(req.model, layer, f)

C26_Witness ==
    /\ ApiRequest /\ req.action = "update" /\ req.model = "posts" /\ req.user = "alice"
    /\ req.data = [title |-> "", status |-> "bogus"]
    /\ resp.status = 422 /\ resp.errors = {"status"}
    /\ LET layer == ResolveLayer("posts", "update", "admin")
       IN  /\ Join(layer["status"]) = "sometimes|string|in:draft,published"
           /\ Join(EffectiveRule("posts", layer, "status")) = "sometimes|string|in:draft,published"
           /\ Join(EffectiveRule("posts", layer, "title")) = "sometimes|string|max:255"

\* ------------------------------------------------------------------- C27

\* the roles assigned to a user in an organization
Assigned(user, org) ==
    {t[3] : t \in {x \in UserRoles \cup memberships : x[1] = user /\ x[2] = org}}

\* C27: after any sequence of invite, resend, cancel, accept and role assignment
\* every (user, organization) pair has at most one role assigned, so the role of
\* permission checks and role-keyed validation is uniquely determined.
C27_OneRolePerPair ==
    \A user \in Users \cup Invitees : \A org \in Orgs :
        Cardinality(Assigned(user, org)) <= 1

\* ------------------------------------------- landing page: GeneratorAnimation

modelName == <<"P", "r", "o", "d", "u", "c", "t">>
GEN_COLUMNS == <<"name", "price", "description", "category_id", "is_active">>
GEN_FILES == <<"Model", "Migration", "Factory", "Policy", "Config updated">>

\* a timeout: the state setter it calls, its argument, the time left in ms
Timer(fn, arg, ms) == [fn |-> fn, arg |-> arg, ms |-> ms]

\* the handle setTimeout returns for it
Id(timer) == <<timer.fn, timer.arg>>

\* for (let i = 0; i < n; i++) schedule(() => fn(i + 1), t + wait + i * each)
OneByOne(fn, n, start, wait, each) ==
    [i \in 1..n |-> Timer(fn, i, start + wait + (i - 1) * each)]

\* a faulty variant: the time of the loop is not added
Overlapping(start, wait, n, each) == start + wait

\* t += wait + n * each
After(start, wait, n, each) == start + wait + n * each

\* the schedule() calls of runAnimation, in order, with the running total t
Timeline ==
    LET t1 == 0 + 800
        t2 == t1 + 1000
        t3 == t2 + 1000
        t4 == After(t3, 400, Len(modelName), 100) + 600
        t5 == After(t4, 400, Len(GEN_COLUMNS), 400) + 600
        t6 == t5 + 1400
        t7 == After(t6, 600, Len(GEN_FILES), 400) + 400
        t8 == t7 + 3500
    IN  <<Timer("setScreen", 1, t1), Timer("setOptionSelected", 1, t2),
          Timer("setScreen", 2, t3)>>
        \o OneByOne("setTypedName", Len(modelName), t3, 400, 100)
        \o <<Timer("setScreen", 3, t4)>>
        \o OneByOne("setVisibleColumns", Len(GEN_COLUMNS), t4, 400, 400)
        \o <<Timer("setScreen", 4, t5), Timer("setScreen", 5, t6)>>
        \o OneByOne("setFileProgress", Len(GEN_FILES), t6, 600, 400)
        \o <<Timer("setShowDone", 1, t7), Timer("runAnimation", 0, t8)>>

\* a faulty variant: the timeouts are left pending
KeepTimers(queue, refs) == queue

\* timersRef.current.forEach(clearTimeout)
ClearTimers(queue, refs) ==
    LET kept(x) == Id(x) \notin refs
    IN  SelectSeq(queue, kept)

\* the timeout that fires next: the least time left, the oldest of equals
Earliest(queue) ==
    CHOOSE i \in DOMAIN queue :
        \A j \in DOMAIN queue :
            queue[i].ms < queue[j].ms \/ (queue[i].ms = queue[j].ms /\ i <= j)

Without(queue, i) == SubSeq(queue, 1, i - 1) \o SubSeq(queue, i + 1, Len(queue))

\* the timeouts after d ms have passed
Elapse(queue, d) == [i \in DOMAIN queue |-> [queue[i] EXCEPT !.ms = @ - d]]

\* runAnimation: the timers cleared, the state reset in one render, the cycle scheduled
RunAnimation(queue) ==
    /\ timers' = ClearTimers(queue, timersRef) \o Timeline
    /\ timersRef' = {Id(Timeline[i]) : i \in DOMAIN Timeline}
    /\ screen' = 0
    /\ optionSelected' = FALSE
    /\ typedName' = <<>>
    /\ visibleColumns' = 0
    /\ fileProgress' = 0
    /\ showDone' = FALSE

\* a faulty variant: every notification of visibility starts the animation
EveryTime(started) == TRUE

\* !hasStartedRef.current
FirstTime(started) == ~started

\* the viewport moves over the 30% threshold of the container
Scroll ==
    /\ visible' = ~visible
    /\ UNCHANGED <<apiVars, copyVars, mounted, isIntersecting, screen, optionSelected,
                   typedName, visibleColumns, fileProgress, showDone, timers, timersRef,
                   hasStartedRef>>

\* the IntersectionObserver callback (threshold 0.3)
Notify ==
    /\ mounted
    /\ isIntersecting # visible
    /\ isIntersecting' = visible
    /\ IF visible /\ FirstTime(hasStartedRef)
       THEN /\ hasStartedRef' = TRUE
            /\ RunAnimation(timers)
       ELSE UNCHANGED <<hasStartedRef, timers, timersRef, screen, optionSelected,
                        typedName, visibleColumns, fileProgress, showDone>>
    /\ UNCHANGED <<apiVars, copyVars, mounted, visible>>

\* the timeout that is due next fires; a setter on an unmounted component does nothing
TimerFires ==
    /\ timers # <<>>
    /\ LET i == Earliest(timers)
           due == timers[i]
           rest == Elapse(Without(timers, i), due.ms)
       IN  IF ~mounted
           THEN /\ timers' = rest
                /\ UNCHANGED <<timersRef, screen, optionSelected, typedName,
                               visibleColumns, fileProgress, showDone>>
           ELSE IF due.fn = "runAnimation"
           THEN RunAnimation(rest)
           ELSE /\ timers' = rest
                /\ screen' = IF due.fn = "setScreen" THEN due.arg ELSE screen
                /\ optionSelected' = IF due.fn = "setOptionSelected" THEN TRUE
                                     ELSE optionSelected
                /\ typedName' = IF due.fn = "setTypedName"
                                THEN SubSeq(modelName, 1, due.arg) ELSE typedName
                /\ visibleColumns' = IF due.fn = "setVisibleColumns" THEN due.arg
                                     ELSE visibleColumns
                /\ fileProgress' = IF due.fn = "setFileProgress" THEN due.arg
                                   ELSE fileProgress
                /\ showDone' = IF due.fn = "setShowDone" THEN TRUE ELSE showDone
                /\ UNCHANGED timersRef
    /\ UNCHANGED <<apiVars, copyVars, mounted, visible, isIntersecting, hasStartedRef>>

\* the cleanup of the effect: observer.disconnect(); clearTimers()
Unmount ==
    /\ mounted
    /\ mounted' = FALSE
    /\ timers' = ClearTimers(timers, timersRef)
    /\ timersRef' = {}
    /\ UNCHANGED <<apiVars, copyVars, visible, isIntersecting, screen, optionSelected,
                   typedName, visibleColumns, fileProgress, showDone, hasStartedRef>>

\* the component is mounted again: new state, new refs, a new observer
Mount ==
    /\ ~mounted
    /\ mounted' = TRUE
    /\ isIntersecting' = FALSE
    /\ screen' = 0
    /\ optionSelected' = FALSE
    /\ typedName' = <<>>
    /\ visibleColumns' = 0
    /\ fileProgress' = 0
    /\ showDone' = FALSE
    /\ timersRef' = {}
    /\ hasStartedRef' = FALSE
    /\ UNCHANGED <<apiVars, copyVars, visible, timers>>

NextAnimation == Scroll \/ Notify \/ TimerFires \/ Unmount \/ Mount

SpecAnimation == Init /\ [][NextAnimation]_vars

\* the event loop runs every timeout that is due
LiveAnimation == SpecAnimation /\ WF_vars(TimerFires)

\* --------------------------------------------------- landing page: CopyButton

\* handleCopy: setCopied(true); setTimeout(() => setCopied(false), 2000)
HandleCopy ==
    /\ Len(copyTimers) < MaxClicks
    /\ copied' = TRUE
    /\ copyTimers' = Append(copyTimers, Timer("setCopied", 0, CopiedFor))
    /\ sinceClick' = 0
    /\ UNCHANGED <<apiVars, animationVars>>

\* the timeout that is due fires: setCopied(false)
CopyTimerFires ==
    /\ copyTimers # <<>>
    /\ copyTimers[Earliest(copyTimers)].ms = 0
    /\ copied' = FALSE
    /\ copyTimers' = Without(copyTimers, Earliest(copyTimers))
    /\ UNCHANGED <<apiVars, animationVars, sinceClick>>

\* time passes, up to the next timeout
Wait ==
    /\ copyTimers # <<>> \/ sinceClick < CopiedFor
    /\ \A i \in DOMAIN copyTimers : copyTimers[i].ms > 0
    /\ LET next == IF copyTimers = <<>> THEN Quantum
                   ELSE copyTimers[Earliest(copyTimers)].ms
           d == IF next < Quantum THEN next ELSE Quantum
       IN  /\ copyTimers' = Elapse(copyTimers, d)
           /\ sinceClick' = IF sinceClick + d < CopiedFor THEN sinceClick + d
                            ELSE CopiedFor
    /\ UNCHANGED <<apiVars, animationVars, copied>>

NextCopy == HandleCopy \/ CopyTimerFires \/ Wait

SpecCopy == Init /\ [][NextCopy]_vars

\* ------------------------------------------------------------------- C28

\* the state of the first render of a cycle
Reset ==
    /\ screen = 0 /\ ~optionSelected /\ typedName = <<>>
    /\ visibleColumns = 0 /\ fileProgress = 0 /\ ~showDone

\* what every state of a mounted animation shows
C28_Shown ==
    mounted =>
        /\ screen \in 0..5
        /\ screen >= 3 => typedName = modelName
        /\ screen >= 4 => visibleColumns = Len(GEN_COLUMNS)
        /\ showDone => (fileProgress = Len(GEN_FILES) /\ screen = 5)

\* the screens follow each other, and the cycle restarts 3500 ms after showDone
C28_Step ==
    (mounted /\ mounted') =>
        /\ screen' # screen => (screen' = screen + 1 \/ (screen = 5 /\ showDone /\ screen' = 0))
        /\ (showDone' /\ ~showDone) => timers' = <<Timer("runAnimation", 0, 3500)>>
        /\ (showDone /\ ~showDone') =>
              /\ timers = <<Timer("runAnimation", 0, 3500)>>
              /\ Reset'
              /\ timers' = Timeline

\* a started animation reaches showDone, and from showDone the first screen again
C28_Loops ==
    /\ (mounted /\ hasStartedRef /\ ~showDone) ~> (~mounted \/ showDone)
    /\ (mounted /\ showDone) ~> (~mounted \/ Reset)

\* C28: in every cycle of GeneratorAnimation screen goes 0, 1, 2, 3, 4, 5 in that
\* order; the name is typed in full before screen 3, the 5 columns are visible
\* before screen 4, the 5 files are listed before showDone, showDone holds only on
\* screen 5, and 3500 ms after showDone the cycle restarts from screen 0 with the
\* state reset, so that a mounted animation loops forever.
C28_AnimationCycle ==
    /\ []C28_Shown
    /\ [][C28_Step]_vars
    /\ C28_Loops

C28_Witness ==
    /\ mounted /\ hasStartedRef
    /\ screen = 5 /\ showDone /\ fileProgress = Len(GEN_FILES)
    /\ typedName = modelName /\ visibleColumns = Len(GEN_COLUMNS)
    /\ timers = <<Timer("runAnimation", 0, 3500)>>

\* ------------------------------------------------------------------- C29

\* the values the component renders
Rendered == <<screen, optionSelected, typedName, visibleColumns, fileProgress, showDone>>

\* the pending timers are the rest of one run of runAnimation: the last entries of
\* its timeline, all with the same time passed since that run
CurrentCycle(queue) ==
    \/ queue = <<>>
    \/ /\ Len(queue) <= Len(Timeline)
       /\ LET k == Len(Timeline) - Len(queue)
              passed == Timeline[k + 1].ms - queue[1].ms
          IN  /\ passed >= 0
              /\ k > 0 => Timeline[k].ms <= passed
              /\ \A i \in DOMAIN queue :
                    queue[i] = [Timeline[k + i] EXCEPT !.ms = @ - passed]

\* the observer callback starts the animation the first time the container is
\* visible, and never again while the component stays mounted
C29_StartsOnce ==
    (mounted /\ mounted') =>
        /\ isIntersecting' # isIntersecting =>
              IF visible /\ ~hasStartedRef
              THEN hasStartedRef' /\ timers' = Timeline /\ Reset'
              ELSE UNCHANGED <<hasStartedRef, timers, Rendered>>
        /\ hasStartedRef => hasStartedRef'
        /\ ~hasStartedRef => (timers = <<>> /\ Reset)

\* the pending timers belong to the cycle in progress and are held in timersRef
C29_OwnTimers ==
    /\ CurrentCycle(timers)
    /\ mounted => \A i \in DOMAIN timers : Id(timers[i]) \in timersRef

\* nothing is pending and nothing is updated once the component is unmounted
C29_QuietAfterUnmount ==
    /\ ~mounted => timers = <<>>
    /\ (~mounted /\ ~mounted') => UNCHANGED <<timers, Rendered>>

\* C29: GeneratorAnimation starts at most once per mount, the first time its
\* container is at least 30% visible; only timers of the cycle in progress are
\* pending at any moment; after unmount no timer fires and no state is updated.
C29_TimersBounded ==
    /\ []C29_OwnTimers
    /\ [][C29_StartsOnce /\ C29_QuietAfterUnmount]_vars

C29_Witness ==
    /\ ~mounted /\ hasStartedRef
    /\ screen = 3 /\ visibleColumns = 2
    /\ timers = <<>> /\ timersRef = {}

\* ------------------------------------------------------------------- C30

\* C30: after any sequence of clicks on CopyButton, copied is true from a click
\* until 2000 ms after the most recent click, and false again afterwards.
C30_CopiedAfterClick ==
    /\ sinceClick < CopiedFor => copied
    /\ (sinceClick = CopiedFor /\ \A i \in DOMAIN copyTimers : copyTimers[i].ms > 0)
          => ~copied

====
